---- MODULE Spec2Model ----
(***************************************************************************)
(* Model of fizzwiz/awaitility: the eager, stateful Handler                *)
(* (src/main/core/Handler.js) over the key-path helpers of                 *)
(* src/main/util/Path.js.                                                  *)
(*                                                                         *)
(* Contexts are objects of a small heap; a reference is the object's name. *)
(* A field holds "absent" (no such key), "undef" (key present, value       *)
(* undefined), a primitive or a reference.  Messages are sequences of      *)
(* colon-free atoms and the atom ":", so that string concatenation and the *)
(* trailing-colon regex of enrich are computed, not assumed.               *)
(***************************************************************************)
EXTENDS Integers, Sequences, FiniteSets, TLC

\* ------------------------------------------------------------------ bounds
MaxOps == 2
MaxPending == 2
MaxListeners == 2
MaxObsOps == 1
MaxHttpOps == 2
MaxDomOps == 3
MaxErrOps == 2
MaxSteps == 3

\* ------------------------------------------------------------ value domain
Objs == {"o0", "o1", "o2"}
Keys == {"a", "b"}
Prims == {"1", "2"}
Root == "o0"

IsObj(v) == v \in Objs
IsNullish(v) == v = "undef"
\* JavaScript truthiness of the values used; "absent" reads as undefined
Truthy(v) == v \notin {"undef", "null", "absent", "", "false"}

\* The initial context: { a: { a: { b: undefined }, b: 1 } }, as objects
\* o0 = {a: o1}, o1 = {a: o2, b: 1}, o2 = {b: undefined}.
InitHeap ==
  [o0 |-> [a |-> "o1", b |-> "absent"],
   o1 |-> [a |-> "o2", b |-> "1"],
   o2 |-> [a |-> "absent", b |-> "undef"]]

\* Path arguments: a dot-path string, given by the result of split("."),
\* or an array of keys.
PathArgs ==
  { [str |-> TRUE,  segs |-> <<"">>,          text |-> ""],
    [str |-> TRUE,  segs |-> <<"a">>,         text |-> "a"],
    [str |-> TRUE,  segs |-> <<"b">>,         text |-> "b"],
    [str |-> TRUE,  segs |-> <<"a", "", "a">>, text |-> "a..a"],
    [str |-> FALSE, segs |-> <<"a", "b">>,    text |-> "a,b"] }

\* The README's usage: const data = { user: { name: "Alice" } }, as objects
\* o0 = {user: o1}, o1 = {name: "Alice"}.
UsageHeap ==
  [o0 |-> [user |-> "o1",     name |-> "absent", age |-> "absent"],
   o1 |-> [user |-> "absent", name |-> "Alice",  age |-> "absent"],
   o2 |-> [user |-> "absent", name |-> "absent", age |-> "absent"]]

UsagePathArgs ==
  { [str |-> TRUE, segs |-> <<k>>, text |-> k] : k \in {"user", "name", "age"} }

\* The context of an HttpRequestHandler, { req, res }: o0 = {req: o1,
\* res: o2}, o1 the request with its method, o2 the response.  `ends`
\* counts the calls of res.end, as a spy on the response would.
\* The nested request objects are flattened: the key "cookies.token" is
\* req.cookies.token, "headers.authorization" is req.headers.authorization,
\* "query.token" is req.query.token, and so on.
HttpKeys == {"req", "res", "method", "headersSent", "statusCode", "body", "ends",
             "token", "cookies.token", "headers.authorization", "query.token",
             "headers.content-type", "headers.accept"}
Blank == [k \in HttpKeys |-> "absent"]
HttpHeap(method, sent) ==
  [o0 |-> [Blank EXCEPT !["req"] = "o1", !["res"] = "o2"],
   o1 |-> [Blank EXCEPT !["method"] = method],
   o2 |-> [Blank EXCEPT !["headersSent"] = sent, !["statusCode"] = "null",
                        !["ends"] = "0"]]

\* What the requests carry besides their method: a token set earlier, a
\* token cookie, an Authorization header, a token query parameter, the
\* content-type and accept headers.
Requests ==
  { [token |-> "absent", cookie |-> "absent", auth |-> "absent", query |-> "absent",
      ctype |-> "absent", accept |-> "absent"],
    [token |-> "t0", cookie |-> "tC", auth |-> "absent", query |-> "absent",
      ctype |-> "absent", accept |-> "absent"],
    [token |-> "absent", cookie |-> "tC", auth |-> "absent", query |-> "absent",
      ctype |-> "application/json", accept |-> "application/json"],
    [token |-> "absent", cookie |-> "absent", auth |-> "Bearer tH", query |-> "absent",
      ctype |-> "text/html", accept |-> "absent"],
    [token |-> "absent", cookie |-> "absent", auth |-> "tRaw", query |-> "tQ",
      ctype |-> "absent", accept |-> "text/html"],
    [token |-> "absent", cookie |-> "absent", auth |-> "absent", query |-> "tQ",
      ctype |-> "absent", accept |-> "absent"],
    [token |-> "absent", cookie |-> "tC", auth |-> "Bearer tH", query |-> "tQ",
      ctype |-> "absent", accept |-> "absent"] }
Carrying(h, c) ==
  [h EXCEPT !["o1"] = [@ EXCEPT !["token"] = c.token,
                                !["cookies.token"] = c.cookie,
                                !["headers.authorization"] = c.auth,
                                !["query.token"] = c.query,
                                !["headers.content-type"] = c.ctype,
                                !["headers.accept"] = c.accept]]

HttpPathArgs ==
  { [str |-> TRUE, segs |-> <<"req">>,           text |-> "req"],
    [str |-> TRUE, segs |-> <<"res">>,           text |-> "res"],
    [str |-> TRUE, segs |-> <<"req", "method">>, text |-> "req.method"],
    [str |-> TRUE, segs |-> <<"body">>,          text |-> "body"] }

\* The tree of the Domler tests: <div id="root"> o0 holding
\* <div id="container"> o1 holding <span class="item">Original</span> o2.
\* A key starting with @ is an attribute, reached by setAttribute only.
DomKeys == {"id", "className", "parentNode", "textContent", "@data-id"}
DomNode(id, className, parentNode) ==
  [k \in DomKeys |->
     CASE k = "id" -> id
       [] k = "className" -> className
       [] k = "parentNode" -> parentNode
       [] k = "textContent" -> "Original"
       [] OTHER -> "absent"]
DomHeap ==
  [o0 |-> DomNode("root", "", "absent"),
   o1 |-> DomNode("container", "", "o0"),
   o2 |-> DomNode("", "item", "o1")]

DomPathArgs ==
  { [str |-> TRUE, segs |-> <<"textContent">>, text |-> "textContent"],
    [str |-> TRUE, segs |-> <<"parentNode">>,  text |-> "parentNode"] }

\* CSS selectors passed to withQuery
Selectors == {"#container", "#container > .item", "#nonexistent"}

AllPathArgs == PathArgs \cup UsagePathArgs \cup HttpPathArgs \cup DomPathArgs

\* ------------------------------------------------------- util/Path.js
RECURSIVE FilterBoolean(_)
FilterBoolean(s) ==
  IF s = <<>> THEN <<>>
  ELSE IF Head(s) = "" THEN FilterBoolean(Tail(s))
  ELSE <<Head(s)>> \o FilterBoolean(Tail(s))

\* Path.keys: split(".").filter(Boolean) for a string, a copy for an array
PathsKeys(p) == IF p.str THEN FilterBoolean(p.segs) ELSE p.segs

\* The (path, creating) arguments tried: every path without creating, the
\* dot-path of several keys also with creating.
PathCreating ==
  { [p |-> p, creating |-> FALSE] : p \in PathArgs } \cup
  { [p |-> p, creating |-> TRUE] : p \in {q \in PathArgs : q.str /\ Len(PathsKeys(q)) > 1} }

\* Path.get(obj, keys): the value, undefined when a level is missing, a
\* TypeError when `key in current` is applied to a primitive.  It takes no
\* third parameter: a `creating` argument passed by a caller is dropped.
RECURSIVE PathsGet(_, _, _)
PathsGet(h, cur, keys) ==
  IF keys = <<>> THEN [thrown |-> FALSE, val |-> cur]
  ELSE IF IsNullish(cur) THEN [thrown |-> FALSE, val |-> "undef"]
  ELSE IF ~IsObj(cur) THEN [thrown |-> TRUE, val |-> "undef"]
  ELSE IF h[cur][Head(keys)] = "absent" THEN [thrown |-> FALSE, val |-> "undef"]
  ELSE PathsGet(h, h[cur][Head(keys)], Tail(keys))

\* Mutant of PathsSet: assigns under the first key instead of walking to the
\* last one.
M_PathsSet_FirstKey(h, cur, keys, value) ==
  IF keys = <<>> \/ ~IsObj(cur) THEN [thrown |-> TRUE, heap |-> h]
  ELSE [thrown |-> FALSE, heap |-> [h EXCEPT ![cur][keys[1]] = value]]

\* Mutant of PathsSet: a missing level ends the walk silently instead of
\* throwing "nonexistent path".
RECURSIVE M_PathsSet_NoThrow(_, _, _, _)
M_PathsSet_NoThrow(h, cur, keys, value) ==
  IF keys = <<>> THEN [thrown |-> TRUE, heap |-> h]
  ELSE IF ~IsObj(cur) THEN [thrown |-> TRUE, heap |-> h]
  ELSE IF Len(keys) = 1
    THEN [thrown |-> FALSE,
          heap |-> [h EXCEPT ![cur][keys[1]] = value]]
  ELSE IF h[cur][Head(keys)] = "absent" THEN [thrown |-> FALSE, heap |-> h]
  ELSE M_PathsSet_NoThrow(h, h[cur][Head(keys)], Tail(keys), value)

\* Path.set(obj, keys, value) with creating = false, the only way Handler
\* calls it: throws on an empty path, on a missing or non-object level and
\* on a non-object target (module code is strict); otherwise assigns.
RECURSIVE PathsSet(_, _, _, _)
PathsSet(h, cur, keys, value) ==
  IF keys = <<>> THEN [thrown |-> TRUE, heap |-> h]
  ELSE IF ~IsObj(cur) THEN [thrown |-> TRUE, heap |-> h]
  ELSE IF Len(keys) = 1
    THEN [thrown |-> FALSE,
          heap |-> [h EXCEPT ![cur][keys[1]] = value]]
  ELSE IF h[cur][Head(keys)] = "absent" THEN [thrown |-> TRUE, heap |-> h]
  ELSE PathsSet(h, h[cur][Head(keys)], Tail(keys), value)


\* --------------------------------------------------------- error objects
HandlerFail == <<"handler-fail">>

\* Error arguments by name; "undef" is a missing argument.  A record holds
\* the object's own enumerable properties.
ErrNames == {"undef", "eMsg", "eFull", "eCode", "eColon"}

DefaultErrNames == {"undef", "dFull", "dBare"}

\* with's default error: { message: `Path not found: ${stringOrArray}` }
NotFound(p) == "notFound " \o p.text

\* the default errors of with, by name
NotFoundError ==
  [n \in {NotFound(p) : p \in AllPathArgs} |->
     [message |-> <<"Path not found", ":",
                    " " \o (CHOOSE p \in AllPathArgs : n = NotFound(p)).text>>]]

\* withQuery's default error: { message: `Element not found: ${selector}` }
ElNotFound(sel) == "elNotFound " \o sel

ElNotFoundError ==
  [n \in {ElNotFound(sel) : sel \in Selectors} |->
     [message |-> <<"Element not found", ":",
                    " " \o (CHOOSE sel \in Selectors : n = ElNotFound(sel))>>]]

ErrObj(name) ==
  CASE name = "undef"  -> <<>>
    [] name = "eMsg"   -> [message |-> <<"wrong-name">>]
    [] name = "eFull"  -> [message |-> <<"wrong-name">>, code |-> "200", path |-> "p.local"]
    [] name = "eCode"  -> [code |-> "404"]
    [] name = "eColon" -> [message |-> <<"wrong-name", ":">>]
    [] name = "dFull"  -> [message |-> <<"default-error">>, code |-> "100", path |-> "p.default"]
    [] name = "dBare"  -> [message |-> <<"handler-fail">>]
    [] name = "eMethod" -> [message |-> <<"method-check">>, code |-> "405"]
    [] name = "eToken"  -> [message |-> <<"token-check">>, code |-> "401"]
    [] name = "ePrepare" -> [message |-> <<"token-prepare-fail">>, code |-> "401"]
    [] name = "eQuery"  -> [message |-> <<"query-param", ":", "token-check">>, code |-> "422"]
    [] name = "eCookie" -> [message |-> <<"cookie", ":", "token-check">>, code |-> "422"]
    [] name = "eHeaderAuth" -> [message |-> <<"header", ":", "Authorization-check">>, code |-> "422"]
    [] name = "eHeaderType" -> [message |-> <<"header", ":", "content-type-check">>, code |-> "422"]
    [] name = "eHeaderAccept" -> [message |-> <<"header", ":", "accept-check">>, code |-> "422"]
    [] name = "dDom"    -> [message |-> <<"dom-handler-fail">>]
    [] name \in DOMAIN NotFoundError -> NotFoundError[name]
    [] name \in DOMAIN ElNotFoundError -> ElNotFoundError[name]
    [] OTHER           -> <<>>

\* Callbacks by name: "undef" is a missing argument, "cbThrow" throws.
OnErrorArgs == {"undef", "cbA", "cbThrow"}
\* the (error, onError) arguments tried on the chained steps
StepFailArgs == { [err |-> "undef", onError |-> "undef"],
                  [err |-> "eFull", onError |-> "cbThrow"] }
DefaultOnErrors == {"undef", "cbD"}
Throws(cb) == cb = "cbThrow"

\* chain is the caller's script of chained calls, for the runs that follow
\* one (empty otherwise); nops counts the calls made.  errs holds a
\* configured error instance and what the latest call on it gave; runs
\* holds a composed handler and its invocations (both empty in the runs of
\* the stateful handler).  asyncTarget is the emitter that Async.on and
\* Async.off of util/Async.js act on, with the registries they keep (empty
\* in the other runs).
VARIABLES heap, path, ok, defaultError, defaultOnError, listeners,
          nfails, log, tasks, last, nops, chain, errs, runs, asyncTarget

vars == <<heap, path, ok, defaultError, defaultOnError, listeners,
          nfails, log, tasks, last, nops, chain, errs, runs, asyncTarget>>

\* the state of the stateful handler
handlerVars == <<heap, path, ok, defaultError, defaultOnError, listeners,
                 nfails, log, tasks, last, nops, chain>>

\* Handler.ctx: the top of the path stack
Top(stack) == stack[Len(stack)]
Ctx == path[Len(path)]

\* `err?.message || ''`
MessageOr(e, dflt) ==
  IF "message" \in DOMAIN e /\ e.message # <<>> THEN e.message ELSE dflt

\* Object.assign({}, a, b)
ObjectAssign(a, b) ==
  [k \in (DOMAIN a) \cup (DOMAIN b) |-> IF k \in DOMAIN b THEN b[k] ELSE a[k]]

\* String.replace(/:$/, '')
StripTrailingColon(m) ==
  IF m # <<>> /\ m[Len(m)] = ":" THEN SubSeq(m, 1, Len(m) - 1) ELSE m

\* `this.defaultError?.message || 'handler-fail'`
CoarseName == MessageOr(ErrObj(defaultError), HandlerFail)

\* Notification.fromError(err), serialised: { msg, payload, code } with the
\* emitter removed
NotificationFromError(env) == "notification"

Inc(n) == IF n = "0" THEN "1" ELSE "2"

\* Res.json(res, code, obj, emitter): sets the status code and the header
\* and ends the response with the JSON; an http response that has ended
\* reports headersSent.
ResJson(h, res, code, obj) ==
  [h EXCEPT ![res]["statusCode"] = code, ![res]["body"] = obj,
            ![res]["headersSent"] = "true", ![res]["ends"] = Inc(h[res]["ends"])]

\* HttpRequestHandler.defaultOnError(err, handler): what it leaves of the
\* heap; handler.get("res") is resolved from the current context cur.
DefaultOnError(h, cur, env) ==
  LET res  == PathsGet(h, cur, <<"res">>)
      code == IF "code" \in DOMAIN env THEN env.code ELSE "400"
  IN IF res.thrown \/ ~IsObj(res.val) THEN h
     ELSE IF h[res.val]["headersSent"] = "true" THEN h
     ELSE ResJson(h, res.val, code, NotificationFromError(env))

\* whether the callback throws: "cbThrow" always, defaultOnError when
\* handler.get("res") walks into a primitive
OnErrorThrows(cb) ==
  \/ Throws(cb)
  \/ cb = "defaultOnError" /\ PathsGet(heap, Ctx, <<"res">>).thrown

\* Handler.enrich(err, causeErr)
Enrich(err, causeErr) ==
  LET assigned == ObjectAssign(ObjectAssign(ErrObj(defaultError), ErrObj(err)),
                               [emitter |-> "this"])
      message  == StripTrailingColon(
                    CoarseName \o <<":">> \o MessageOr(ErrObj(err), <<>>))
  IN ObjectAssign(assigned, [message |-> message, cause |-> causeErr])

\* EventEmitter.emit(name, env): the listeners registered under name, in
\* registration order; a listener that throws ends the emit.
RECURSIVE Emit(_, _, _)
Emit(ls, name, env) ==
  IF ls = <<>> THEN [notes |-> <<>>, thrown |-> FALSE]
  ELSE IF Head(ls).name # name THEN Emit(Tail(ls), name, env)
  ELSE LET note == [obs |-> Head(ls).id, event |-> name, env |-> env]
       IN IF Head(ls).throws
            THEN [notes |-> <<note>>, thrown |-> TRUE]
            ELSE LET rest == Emit(Tail(ls), name, env)
                 IN [notes |-> <<note>> \o rest.notes, thrown |-> rest.thrown]

\* Mutant of Deliver: emits the enriched-message event before the coarse one.
M_Deliver_FineFirst(cb, enriched, okSet) ==
  LET Seen(ns) == [i \in 1..Len(ns) |-> [obs |-> ns[i].obs, event |-> ns[i].event,
                                         env |-> ns[i].env, okSeen |-> okSet]]
      pre      == IF cb # "undef"
                    THEN <<[obs |-> cb, event |-> <<>>, env |-> enriched, okSeen |-> okSet]>>
                    ELSE <<>>
      first    == Emit(listeners, enriched.message, enriched)
      second   == Emit(listeners, CoarseName, enriched)
  IN IF cb # "undef" /\ OnErrorThrows(cb)
       THEN [ok |-> okSet, env |-> enriched, notes |-> pre, thrown |-> TRUE]
     ELSE IF first.thrown
       THEN [ok |-> okSet, env |-> enriched,
             notes |-> pre \o Seen(first.notes), thrown |-> TRUE]
     ELSE [ok |-> okSet, env |-> enriched,
           notes |-> pre \o Seen(first.notes) \o Seen(second.notes),
           thrown |-> second.thrown]

\* The notifications of Handler.fail once ok is set and the envelope is
\* built: the callback cb, then the coarse event, then the enriched-message
\* event, each with the ok flag the observer sees; an observer's exception
\* leaves it early.
Deliver(cb, enriched, okSet) ==
  LET cbNote   == [obs |-> cb, event |-> <<>>, env |-> enriched, okSeen |-> okSet]
      Seen(ns) == [i \in 1..Len(ns) |-> [obs |-> ns[i].obs, event |-> ns[i].event,
                                         env |-> ns[i].env, okSeen |-> okSet]]
      first    == Emit(listeners, CoarseName, enriched)
      second   == Emit(listeners, enriched.message, enriched)
  IN IF cb # "undef" /\ OnErrorThrows(cb)
       THEN [ok |-> okSet, env |-> enriched, notes |-> <<cbNote>>, thrown |-> TRUE]
     ELSE LET pre == IF cb # "undef" THEN <<cbNote>> ELSE <<>>
          IN IF first.thrown
               THEN [ok |-> okSet, env |-> enriched,
                     notes |-> pre \o Seen(first.notes), thrown |-> TRUE]
               ELSE [ok |-> okSet, env |-> enriched,
                     notes |-> pre \o Seen(first.notes) \o Seen(second.notes),
                     thrown |-> second.thrown]

\* `onError ?? this.defaultOnError`
OnErrorOr(onError) == IF onError = "undef" THEN defaultOnError ELSE onError

\* Handler.fail(err, cause, onError): the value it gives ok, the envelope,
\* the notifications it delivers, in order, and whether an observer's
\* exception left it early.
Fail(err, cause, onError) ==
  Deliver(OnErrorOr(onError), Enrich(err, cause), FALSE)

\* ------------------------------------------------------ Handler methods
\* Each method is an operator giving the outcome of one call in the current
\* state: the new heap, path and ok, the envelopes and notifications of the
\* failure pipeline, how many caller-supplied bodies (predicate, producer,
\* function) it invoked, whether the call threw, and its return value.
Unchanged ==
  [heap |-> heap, path |-> path, ok |-> ok, envs |-> <<>>, notes |-> <<>>,
   invoked |-> 0, thrown |-> FALSE, ret |-> "this"]

\* The outcome so far, base, once fail has returned f and its callback cb
\* has acted on the heap.
Failed(base, f, cb) ==
  [base EXCEPT !.ok = f.ok, !.envs = <<f.env>>, !.notes = f.notes,
               !.thrown = f.thrown,
               !.heap = IF cb = "defaultOnError"
                          THEN DefaultOnError(base.heap, Top(base.path), f.env)
                          ELSE base.heap]

\* `return this.fail(error, cause, onError)` on top of the outcome so far
Failing(base, err, cause, onError) ==
  Failed(base, Fail(err, cause, onError), OnErrorOr(onError))

\* Mutant of HandlerWith: a successful navigation also marks the handler ok.
M_HandlerWith_Revive(p, err, onError, creating) ==
  LET next == PathsGet(heap, Ctx, PathsKeys(p))
  IN IF next.thrown THEN [Unchanged EXCEPT !.thrown = TRUE]
     ELSE IF next.val = Ctx \/ next.val = "undef"
       THEN Failing(Unchanged, IF err = "undef" THEN NotFound(p) ELSE err,
                    "undef", onError)
     ELSE [Unchanged EXCEPT !.path = Append(path, next.val), !.ok = TRUE]

\* Mutant of HandlerWith: pushes the value met at every key of the path.
RECURSIVE M_Levels(_, _, _)
M_Levels(h, cur, keys) ==
  IF keys = <<>> THEN <<>>
  ELSE <<h[cur][Head(keys)]>> \o M_Levels(h, h[cur][Head(keys)], Tail(keys))

M_HandlerWith_PushEach(p, err, onError, creating) ==
  LET next == PathsGet(heap, Ctx, PathsKeys(p))
  IN IF next.thrown THEN [Unchanged EXCEPT !.thrown = TRUE]
     ELSE IF next.val = Ctx \/ next.val = "undef"
       THEN Failing(Unchanged, IF err = "undef" THEN NotFound(p) ELSE err,
                    "undef", onError)
     ELSE [Unchanged EXCEPT !.path = path \o M_Levels(heap, Ctx, PathsKeys(p))]

\* Mutant of HandlerWith: a path resolving to the current context itself is
\* accepted and leaves the handler alone.
M_HandlerWith_SameIsNoop(p, err, onError, creating) ==
  LET next == PathsGet(heap, Ctx, PathsKeys(p))
  IN IF next.thrown THEN [Unchanged EXCEPT !.thrown = TRUE]
     ELSE IF next.val = Ctx THEN Unchanged
     ELSE IF next.val = "undef"
       THEN Failing(Unchanged, IF err = "undef" THEN NotFound(p) ELSE err,
                    "undef", onError)
     ELSE [Unchanged EXCEPT !.path = Append(path, next.val)]

\* Handler.with(stringOrArray, error, onError, creating)
HandlerWith(p, err, onError, creating) ==
  LET next == PathsGet(heap, Ctx, PathsKeys(p))
  IN IF next.thrown THEN [Unchanged EXCEPT !.thrown = TRUE]
     ELSE IF next.val = Ctx \/ next.val = "undef"
       THEN Failing(Unchanged, IF err = "undef" THEN NotFound(p) ELSE err,
                    "undef", onError)
     ELSE [Unchanged EXCEPT !.path = Append(path, next.val)]

Min(a, b) == IF a < b THEN a ELSE b

\* Mutant of HandlerWithout: pops without testing `this.path.length > 1`.
M_HandlerWithout_NoFloor(nsteps) ==
  [Unchanged EXCEPT !.path = SubSeq(path, 1, Len(path) - nsteps)]

\* Handler.without(nsteps)
HandlerWithout(nsteps) ==
  [Unchanged EXCEPT !.path = SubSeq(path, 1, Len(path) - Min(nsteps, Len(path) - 1))]

\* The methods passed to checkMethod(...methods), by name
MethodArgs == {"GET,POST", "delete"}
Methods(arg) == IF arg = "GET,POST" THEN {"GET", "POST"} ELSE {"delete"}

\* String.toUpperCase on the method names used
ToUpperCase(m) ==
  CASE m = "get" -> "GET" [] m = "post" -> "POST" [] m = "delete" -> "DELETE"
    [] OTHER -> m

\* checkMethod's predicate, by name
MethodPredicate(arg) == "includes " \o arg

\* ({ req }) => methods.map(m => m.toUpperCase())
\*                     .includes(req.method.toUpperCase())
MethodIncluded(arg, c) ==
  IF ~IsObj(c) \/ "req" \notin DOMAIN heap[c] THEN "throw"
  ELSE LET req == heap[c]["req"]
       IN IF ~IsObj(req) THEN "throw"
          ELSE IF heap[req]["method"] \in {"absent", "undef"} THEN "throw"
          ELSE IF ToUpperCase(heap[req]["method"])
                    \in {ToUpperCase(m) : m \in Methods(arg)}
            THEN "true" ELSE "false"

\* the request the predicates destructure from the context, ({ req }) =>
ReqOf(h, c) ==
  IF IsObj(c) /\ "req" \in DOMAIN h[c] /\ IsObj(h[c]["req"])
    THEN h[c]["req"] ELSE "undef"

\* Req.getToken(req, tokenNames) under the default names: the token cookie,
\* then the Authorization header without its Bearer prefix, then the token
\* query parameter, else undefined
GetToken(h, req) ==
  IF Truthy(h[req]["cookies.token"]) THEN h[req]["cookies.token"]
  ELSE IF h[req]["headers.authorization"] = "Bearer tH" THEN "tH"
  ELSE IF Truthy(h[req]["headers.authorization"]) THEN h[req]["headers.authorization"]
  ELSE IF Truthy(h[req]["query.token"]) THEN h[req]["query.token"]
  ELSE "undef"

\* Req.prepareToken(req, tokenNames):
\*   if (!req.token) req.token = this.getToken(req, tokenNames); return true;
ReqPrepareToken(h, req) ==
  IF Truthy(h[req]["token"]) THEN [r |-> "true", heap |-> h]
  ELSE [r |-> "true", heap |-> [h EXCEPT ![req]["token"] = GetToken(h, req)]]

\* The validators passed to the convenience checks: Boolean is the default,
\* isTC is v => v === "tC", isJson is checkContentType's and checkAccept's
\* val => val != null && val === "application/json".
Validators == {"Boolean", "isTC"}
Validate(v, val) ==
  CASE v = "Boolean" -> IF Truthy(val) THEN "true" ELSE "false"
    [] v = "isTC"    -> IF val = "tC" THEN "true" ELSE "false"
    [] v = "isJson"  -> IF val = "application/json" THEN "true" ELSE "false"

\* checkToken's predicate:
\*   req.token = req.token || Req.getToken(req, tokenNames);
\*   return validator(req.token);
TokenChecked(v, h, req) ==
  LET token == IF Truthy(h[req]["token"]) THEN h[req]["token"] ELSE GetToken(h, req)
  IN [r |-> Validate(v, token), heap |-> [h EXCEPT ![req]["token"] = token]]

\* ({ req }) => validator(req.query?.[param]) and the like: the predicates
\* that read one property of the request
ReqValidated(key, v, c) ==
  IF ReqOf(heap, c) = "undef" THEN "throw"
  ELSE Validate(v, heap[ReqOf(heap, c)][key])

\* Predicates by name: Boolean is the default predicate, isAlice is the
\* README's ctx => ctx.name === "Alice", pLater an async function whose
\* promise resolves to false.
Predicates == {"Boolean", "pTrue", "pFalse", "pThrow", "isAlice", "pLater"}
MethodPredicates == [a \in MethodArgs |-> MethodPredicate(a)]
PredicateResult(pred, c) ==
  CASE pred = "Boolean" -> IF c = "undef" THEN "false" ELSE "true"
    [] pred = "pTrue"   -> "true"
    [] pred = "pFalse"  -> "false"
    [] pred = "pThrow"  -> "throw"
    [] pred = "pLater"  -> "promise"
    [] pred = "isAlice" ->
         IF IsObj(c) /\ "name" \in DOMAIN heap[c] /\ heap[c]["name"] = "Alice"
           THEN "true" ELSE "false"
    [] OTHER ->
         MethodIncluded(CHOOSE a \in MethodArgs : MethodPredicates[a] = pred, c)

\* Mutant of HandlerCheck: the `if (!this.ok) return this` guard is missing.
M_HandlerCheck_NoGuard(pred, err, onError) ==
  LET r    == PredicateResult(pred, Ctx)
      base == [Unchanged EXCEPT !.invoked = 1]
  IN IF r \in {"true", "promise"} THEN base
     ELSE IF r = "false" THEN Failing(base, err, err, onError)
     ELSE Failing(base, err, "thrown", onError)

\* Handler.check(predicate, error, onError)
HandlerCheck(pred, err, onError) ==
  IF ~ok THEN Unchanged
  ELSE LET r    == PredicateResult(pred, Ctx)
           base == [Unchanged EXCEPT !.invoked = 1]
       IN IF r \in {"true", "promise"} THEN base
          ELSE IF r = "false" THEN Failing(base, err, err, onError)
          ELSE Failing(base, err, "thrown", onError)

\* Mutant of HandlerCheckMethod: fails with checkToken's error.
M_HandlerCheckMethod_TokenError(arg) ==
  HandlerCheck(MethodPredicate(arg), "eToken", defaultOnError)

\* HttpRequestHandler.checkMethod(...methods)
HandlerCheckMethod(arg) ==
  HandlerCheck(MethodPredicate(arg), "eMethod", defaultOnError)

\* Handler.check on a predicate that gave r and left the heap h
Checked(r, h, err, onError) ==
  IF r = "true" THEN [Unchanged EXCEPT !.invoked = 1, !.heap = h]
  ELSE Failing([Unchanged EXCEPT !.invoked = 1, !.heap = h], err,
               IF r = "false" THEN err ELSE "thrown", onError)

\* HttpRequestHandler.prepareToken(tokenNames, error, onError), the defaults
HandlerPrepareToken ==
  IF ~ok THEN Unchanged
  ELSE IF ReqOf(heap, Ctx) = "undef"
    THEN Checked("throw", heap, "ePrepare", defaultOnError)
  ELSE Checked("true", ReqPrepareToken(heap, ReqOf(heap, Ctx)).heap,
               "ePrepare", defaultOnError)

\* HttpRequestHandler.checkToken(validator, tokenNames)
HandlerCheckToken(v) ==
  IF ~ok THEN Unchanged
  ELSE IF ReqOf(heap, Ctx) = "undef"
    THEN Checked("throw", heap, "eToken", defaultOnError)
  ELSE Checked(TokenChecked(v, heap, ReqOf(heap, Ctx)).r,
               TokenChecked(v, heap, ReqOf(heap, Ctx)).heap,
               "eToken", defaultOnError)

\* checkQueryParam, checkCookie, checkHeader, checkContentType, checkAccept:
\* this.check(({ req }) => validator(<one property of req>), error,
\* this.defaultOnError)
HandlerCheckReq(key, v, err) ==
  IF ~ok THEN Unchanged
  ELSE Checked(ReqValidated(key, v, Ctx), heap, err, defaultOnError)

\* Handler.get(path, creating)
HandlerGet(p, creating) ==
  IF p.str /\ p.text = "" THEN [Unchanged EXCEPT !.ret = Ctx]
  ELSE LET r == PathsGet(heap, Ctx, PathsKeys(p))
       IN [Unchanged EXCEPT !.thrown = r.thrown, !.ret = r.val]

\* Values passed to set: a plain (JSON-safe or undefined) value, or a
\* producer given by what it returns or that it throws.
ValueArgs ==
  { [fn |-> FALSE, out |-> v] : v \in {"1", "2"} } \cup
  { [fn |-> TRUE,  out |-> v] : v \in {"undef", "throw"} }

Init1(keys) == SubSeq(keys, 1, Len(keys) - 1)

\* Mutant of Assign: assigns relative to the root, not the current context.
M_Assign_Root(base, keys, trg, val, creating, err, onError) ==
  LET w == PathsSet(base.heap, base.path[1], keys, val)
  IN IF w.thrown THEN Failing(base, err, "Error", onError)
     ELSE [base EXCEPT !.heap = w.heap]

\* Mutant of Assign: a walk that meets a missing level has already written
\* the value under the first key when it throws.
M_Assign_Partial(base, keys, trg, val, creating, err, onError) ==
  IF Len(keys) > 1 /\ creating
    THEN IF IsObj(trg)
           THEN [base EXCEPT !.heap[trg][keys[Len(keys)]] = val]
           ELSE Failing(base, err, "TypeError", onError)
    ELSE LET cur == base.path[Len(base.path)]
             w   == PathsSet(base.heap, cur, keys, val)
         IN IF w.thrown
              THEN Failing(IF keys # <<>> /\ IsObj(cur)
                             THEN [base EXCEPT !.heap[cur][keys[1]] = val]
                             ELSE base,
                           err, "Error", onError)
            ELSE [base EXCEPT !.heap = w.heap]

\* the tail of set and asyncSet once the value is known:
\* `trg[last] = val` or Paths.set(this.ctx, keys, val)
Assign(base, keys, trg, val, creating, err, onError) ==
  IF Len(keys) > 1 /\ creating
    THEN IF IsObj(trg)
           THEN [base EXCEPT !.heap[trg][keys[Len(keys)]] = val]
           ELSE Failing(base, err, "TypeError", onError)
    ELSE LET w == PathsSet(base.heap, base.path[Len(base.path)], keys, val)
         IN IF w.thrown THEN Failing(base, err, "Error", onError)
            ELSE [base EXCEPT !.heap = w.heap]

\* Handler.set(path, value, error, onError, creating)
HandlerSet(p, value, err, onError, creating) ==
  IF ~ok THEN Unchanged
  ELSE LET keys == PathsKeys(p)
           t    == IF creating /\ Len(keys) > 1
                     THEN PathsGet(heap, Ctx, Init1(keys))
                     ELSE [thrown |-> FALSE, val |-> Ctx]
       IN IF t.thrown THEN Failing(Unchanged, err, "TypeError", onError)
          ELSE IF value.fn /\ value.out = "throw"
            THEN Failing([Unchanged EXCEPT !.invoked = 1], err, "thrown", onError)
          ELSE LET base == [Unchanged EXCEPT !.invoked = IF value.fn THEN 1 ELSE 0]
               IN Assign(base, keys, t.val, value.out, creating, err, onError)

\* Functions passed to exec, by what they do to the context they receive.
ExecFns == {"noop", "mutate", "throw"}

\* Handler.exec(fn, error, onError): fn runs inside the call
HandlerExec(fn, err, onError) ==
  IF ~ok THEN Unchanged
  ELSE LET base == [Unchanged EXCEPT !.invoked = 1]
       IN IF fn = "throw" THEN Failing(base, err, "thrown", onError)
          ELSE IF fn = "mutate"
            THEN IF IsObj(Ctx) THEN [base EXCEPT !.heap[Ctx]["b"] = "2"]
                 ELSE Failing(base, err, "TypeError", onError)
          ELSE base


\* ------------------------------------------------- asynchronous methods
\* Mutant of Task: the method does not await, its promise settles at once.
M_Task_Settled(kind, keys, trg, creating, settle, err, onError) ==
  [kind |-> kind, keys |-> keys, trg |-> trg, creating |-> creating,
   settle |-> settle, err |-> err, onError |-> onError, promise |-> "settled"]

\* An async method runs up to its `await` inside the call and leaves a
\* pending task; the rest runs when the awaited value settles.  `promise`
\* is the state of the promise the call returned.
Task(kind, keys, trg, creating, settle, err, onError) ==
  [kind |-> kind, keys |-> keys, trg |-> trg, creating |-> creating,
   settle |-> settle, err |-> err, onError |-> onError, promise |-> "pending"]

\* Async predicates: what the call does ("throw": throws before returning)
\* or what the returned promise settles to.
AsyncPredicates == {"true", "false", "throw", "reject"}

\* Handler.asyncCheck(predicate, error, onError), up to the await
HandlerAsyncCheck(pred, err, onError) ==
  IF ~ok THEN [out |-> [Unchanged EXCEPT !.ret = "promise"], task |-> <<>>]
  ELSE LET base == [Unchanged EXCEPT !.invoked = 1, !.ret = "promise"]
       IN IF pred = "throw"
            THEN [out |-> Failing(base, err, "thrown", onError), task |-> <<>>]
            ELSE [out |-> base,
                  task |-> <<Task("asyncCheck", <<>>, Ctx, FALSE, pred, err, onError)>>]

\* Values passed to asyncSet: a value or promise, or a producer; `out` is
\* what it resolves to, "reject", or "throw" for a producer that throws.
AsyncValueArgs ==
  { [fn |-> FALSE, out |-> v] : v \in {"1", "reject"} } \cup
  { [fn |-> TRUE,  out |-> v] : v \in {"1", "throw"} }

\* Handler.asyncSet(path, value, error, onError, creating), up to the await
HandlerAsyncSet(p, value, err, onError, creating) ==
  IF ~ok THEN [out |-> [Unchanged EXCEPT !.ret = "promise"], task |-> <<>>]
  ELSE LET keys == PathsKeys(p)
           t    == IF creating /\ Len(keys) > 1
                     THEN PathsGet(heap, Ctx, Init1(keys))
                     ELSE [thrown |-> FALSE, val |-> Ctx]
           ret  == [Unchanged EXCEPT !.ret = "promise"]
       IN IF t.thrown
            THEN [out |-> Failing(ret, err, "TypeError", onError), task |-> <<>>]
          ELSE IF value.fn /\ value.out = "throw"
            THEN [out |-> Failing([ret EXCEPT !.invoked = 1], err, "thrown", onError),
                  task |-> <<>>]
          ELSE [out |-> [ret EXCEPT !.invoked = IF value.fn THEN 1 ELSE 0],
                task |-> <<Task("asyncSet", keys, t.val, creating,
                                value.out, err, onError)>>]

\* Functions passed to asyncExec: what they do before their first await
\* ("noop", "mutate", "throw") or that the promise they return rejects.
AsyncExecFns == {"noop", "mutate", "throw", "reject"}

\* Handler.asyncExec(fn, error, onError), up to the await
HandlerAsyncExec(fn, err, onError) ==
  IF ~ok THEN [out |-> [Unchanged EXCEPT !.ret = "promise"], task |-> <<>>]
  ELSE LET base == [Unchanged EXCEPT !.invoked = 1, !.ret = "promise"]
           t    == Task("asyncExec", <<>>, Ctx, FALSE,
                        IF fn = "reject" THEN "reject" ELSE "true", err, onError)
       IN IF fn = "throw"
            THEN [out |-> Failing(base, err, "thrown", onError), task |-> <<>>]
          ELSE IF fn = "mutate"
            THEN IF IsObj(Ctx)
                   THEN [out |-> [base EXCEPT !.heap[Ctx]["b"] = "2"], task |-> <<t>>]
                   ELSE [out |-> Failing(base, err, "TypeError", onError), task |-> <<>>]
          ELSE [out |-> base, task |-> <<t>>]

\* ------------------------------------------------------------- Domler
\* whether v is a node: it has querySelector and setAttribute
IsNode(h, v) == IsObj(v) /\ "parentNode" \in DOMAIN h[v]

\* whether node n lies below node cur
RECURSIVE IsBelow(_, _, _)
IsBelow(h, n, cur) ==
  IF h[n]["parentNode"] = "absent" THEN FALSE
  ELSE h[n]["parentNode"] = cur \/ IsBelow(h, h[n]["parentNode"], cur)

\* whether node n matches the selector
Matches(h, sel, n) ==
  CASE sel = "#container" -> h[n]["id"] = "container"
    [] sel = "#container > .item" ->
         /\ h[n]["className"] = "item"
         /\ h[n]["parentNode"] # "absent"
         /\ h[h[n]["parentNode"]]["id"] = "container"
    [] OTHER -> FALSE

\* Element.querySelector(selector): the first node below cur, in document
\* order, that matches; null when there is none
QuerySelector(h, cur, sel) ==
  LET order == <<"o0", "o1", "o2">>
      found == {i \in DOMAIN order :
                  IsBelow(h, order[i], cur) /\ Matches(h, sel, order[i])}
  IN IF found = {} THEN "null"
     ELSE order[CHOOSE i \in found : \A j \in found : i <= j]

\* Domler.withQuery(selector, error, onError): this.ctx.querySelector is
\* called outside any try, on a context without it the call throws a
\* TypeError
DomlerWithQuery(sel, err, onError) ==
  IF ~ok THEN Unchanged
  ELSE IF ~IsNode(heap, Ctx) THEN [Unchanged EXCEPT !.thrown = TRUE]
  ELSE IF QuerySelector(heap, Ctx, sel) = "null"
    THEN Failing(Unchanged, IF err = "undef" THEN ElNotFound(sel) ELSE err,
                 "undef", onError)
  ELSE [Unchanged EXCEPT !.path = Append(path, QuerySelector(heap, Ctx, sel))]

\* Values passed to setAttr and setText: a plain value, or a producer that
\* throws
DomValues == {"123", "Hello", "throw"}

\* Mutant of DomlerSetAttr: sets the attribute on the root node.
M_DomlerSetAttr_Root(attr, value, err, onError) ==
  IF ~ok THEN [out |-> [Unchanged EXCEPT !.ret = "promise"], task |-> <<>>]
  ELSE LET base == [Unchanged EXCEPT !.invoked = 1, !.ret = "promise"]
       IN IF value = "throw"
            THEN [out |-> Failing(base, err, "thrown", onError), task |-> <<>>]
          ELSE IF ~IsNode(heap, Ctx)
            THEN [out |-> Failing(base, err, "TypeError", onError), task |-> <<>>]
          ELSE [out |-> [base EXCEPT !.heap[Root]["@" \o attr] = value],
                task |-> <<Task("asyncExec", <<>>, Ctx, FALSE, "true", err, onError)>>]

\* Domler.setAttr(attr, value, error, onError): asyncExec of
\* el => el.setAttribute(attr, val), which runs up to asyncExec's await
\* inside the call
DomlerSetAttr(attr, value, err, onError) ==
  IF ~ok THEN [out |-> [Unchanged EXCEPT !.ret = "promise"], task |-> <<>>]
  ELSE LET base == [Unchanged EXCEPT !.invoked = 1, !.ret = "promise"]
       IN IF value = "throw"
            THEN [out |-> Failing(base, err, "thrown", onError), task |-> <<>>]
          ELSE IF ~IsNode(heap, Ctx)
            THEN [out |-> Failing(base, err, "TypeError", onError), task |-> <<>>]
          ELSE [out |-> [base EXCEPT !.heap[Ctx]["@" \o attr] = value],
                task |-> <<Task("asyncExec", <<>>, Ctx, FALSE, "true", err, onError)>>]

\* Domler.setText(value, error, onError): exec of
\* el => { el.textContent = value }; assigning a property of a primitive
\* throws in module code
DomlerSetText(value, err, onError) ==
  IF ~ok THEN [Unchanged EXCEPT !.ret = "promise"]
  ELSE LET base == [Unchanged EXCEPT !.invoked = 1, !.ret = "promise"]
       IN IF value = "throw" THEN Failing(base, err, "thrown", onError)
          ELSE IF ~IsObj(Ctx) THEN Failing(base, err, "TypeError", onError)
          ELSE [base EXCEPT !.heap[Ctx]["textContent"] = value]

\* The continuation of an async method after its await
Continue(t) ==
  IF t.settle = "reject" THEN Failing(Unchanged, t.err, "rejected", t.onError)
  ELSE IF t.kind = "asyncSet"
    THEN Assign(Unchanged, t.keys, t.trg, t.settle, t.creating, t.err, t.onError)
  ELSE IF t.kind = "asyncCheck" /\ t.settle = "false"
    THEN Failing(Unchanged, t.err, t.err, t.onError)
  ELSE Unchanged


\* ------------------------------------------------------------ the machine
\* `last` describes the latest call or continuation: what it was, its
\* arguments (creating: the flag passed to with, get, set or asyncSet), the
\* state it started from (for set: q, what the keys before the last one
\* resolved to; arg, the first argument its producer was called with), how
\* many caller-supplied bodies it
\* invoked, whether it threw (or its promise rejected) and what it returned.
\* nfails counts the runs of the failure pipeline, log holds the
\* notifications delivered to observers.
Info(op) ==
  [op |-> op, ok0 |-> ok, path0 |-> path, log0 |-> Len(log),
   p |-> "-", q |-> "-", val |-> "-", fn |-> FALSE, n |-> 0, creating |-> FALSE,
   invoked |-> 0, thrown |-> FALSE, ret |-> "-", env |-> <<>>, arg |-> "-"]

Apply(out, info, newTasks) ==
  /\ heap' = out.heap
  /\ path' = out.path
  /\ ok' = out.ok
  /\ nfails' = nfails + Len(out.envs)
  /\ log' = log \o out.notes
  /\ tasks' = newTasks
  /\ last' = [info EXCEPT !.invoked = out.invoked, !.thrown = out.thrown,
                          !.ret = out.ret,
                          !.env = IF out.envs # <<>> THEN out.envs[1] ELSE info.env]
  /\ UNCHANGED <<defaultError, defaultOnError, listeners, chain, errs, runs, asyncTarget>>

\* the (error, onError) arguments tried on the constructor
Defaults == { [error |-> "undef", onError |-> "undef"],
              [error |-> "dFull", onError |-> "cbD"] }

\* new Handler(ctx, error, onError)
Init ==
  /\ heap = InitHeap
  /\ path = <<Root>>
  /\ ok = TRUE
  /\ \E d \in Defaults : defaultError = d.error /\ defaultOnError = d.onError
  /\ listeners = <<>>
  /\ nfails = 0
  /\ log = <<>>
  /\ tasks = <<>>
  /\ last = Info("new")
  /\ nops = 0
  /\ chain = <<>>
  /\ errs = <<>>
  /\ asyncTarget = <<>>
  /\ runs = <<>>

Step == nops < MaxOps /\ nops' = nops + 1

With ==
  /\ Step
  /\ \E pc \in PathCreating, f \in StepFailArgs :
       Apply(HandlerWith(pc.p, f.err, f.onError, pc.creating),
             [Info("with") EXCEPT !.p = pc.p.text, !.creating = pc.creating], tasks)

Without ==
  /\ Step
  /\ \E n \in {0, 1, 3} :
       Apply(HandlerWithout(n), [Info("without") EXCEPT !.n = n], tasks)

Check ==
  /\ Step
  /\ \E pred \in Predicates, f \in StepFailArgs :
       LET out == HandlerCheck(pred, f.err, f.onError)
       IN Apply(out,
                [Info("check") EXCEPT
                   !.val = IF out.invoked = 1 THEN PredicateResult(pred, Ctx) ELSE "-"],
                tasks)

Get ==
  /\ Step
  /\ \E pc \in PathCreating :
       Apply(HandlerGet(pc.p, pc.creating), [Info("get") EXCEPT !.p = pc.p.text, !.creating = pc.creating], tasks)

\* what the keys before the last one resolve to, for `last`
Container(p) ==
  LET r == PathsGet(heap, Ctx, Init1(PathsKeys(p)))
  IN IF r.thrown THEN "TypeError" ELSE r.val

\* `trg` of set and asyncSet, the first argument of `value(trg, this)`
Trg(p, creating) ==
  IF creating /\ Len(PathsKeys(p)) > 1 THEN Container(p) ELSE Ctx

\* the producer's first argument when the call invoked it
Passed(out, p, creating) == IF out.invoked = 1 THEN Trg(p, creating) ELSE "-"

Set ==
  /\ Step
  /\ \E pc \in PathCreating, value \in ValueArgs, f \in StepFailArgs :
       LET out == HandlerSet(pc.p, value, f.err, f.onError, pc.creating)
       IN Apply(out,
                [Info("set") EXCEPT !.p = pc.p.text, !.val = value.out, !.fn = value.fn,
                                    !.q = Container(pc.p), !.creating = pc.creating,
                                    !.arg = Passed(out, pc.p, pc.creating)],
                tasks)

Exec ==
  /\ Step
  /\ \E fn \in ExecFns, f \in StepFailArgs :
       Apply([HandlerExec(fn, f.err, f.onError) EXCEPT !.ret = "promise"],
             Info("exec"), tasks)

AsyncCheck ==
  /\ Step
  /\ Len(tasks) < MaxPending
  /\ \E pred \in AsyncPredicates, f \in StepFailArgs :
       LET r == HandlerAsyncCheck(pred, f.err, f.onError)
       IN Apply(r.out, Info("asyncCheck"), tasks \o r.task)

AsyncSet ==
  /\ Step
  /\ Len(tasks) < MaxPending
  /\ \E pc \in PathCreating, value \in AsyncValueArgs, f \in StepFailArgs :
       LET r == HandlerAsyncSet(pc.p, value, f.err, f.onError, pc.creating)
       IN Apply(r.out,
                [Info("asyncSet") EXCEPT !.p = pc.p.text, !.creating = pc.creating,
                                         !.arg = Passed(r.out, pc.p, pc.creating)],
                tasks \o r.task)

AsyncExec ==
  /\ Step
  /\ Len(tasks) < MaxPending
  /\ \E fn \in AsyncExecFns, f \in StepFailArgs :
       LET r == HandlerAsyncExec(fn, f.err, f.onError)
       IN Apply(r.out, Info("asyncExec"), tasks \o r.task)

Remove(s, i) == SubSeq(s, 1, i - 1) \o SubSeq(s, i + 1, Len(s))

\* The awaited value of a pending task settles and the method continues.
Resume ==
  /\ \E i \in DOMAIN tasks :
       Apply(Continue(tasks[i]), [Info("resume") EXCEPT !.q = tasks[i].kind],
             Remove(tasks, i))
  /\ UNCHANGED nops

\* handler.fail(err, cause, onError), called directly
FailCall ==
  /\ Step
  /\ \E f \in StepFailArgs :
       Apply(Failing(Unchanged, f.err, "undef", f.onError),
             [Info("fail") EXCEPT !.p = f.err, !.q = "undef"], tasks)

\* handler.enrich(err), called directly in a chain: it returns an envelope
\* and leaves the handler alone
EnrichStep ==
  /\ Step
  /\ \E f \in StepFailArgs :
       Apply(Unchanged,
             [Info("enrich") EXCEPT !.p = f.err, !.q = "undef",
                                    !.env = Enrich(f.err, "undef")],
             tasks)

Next ==
  \/ With \/ Without \/ Check \/ Get \/ Set \/ Exec
  \/ AsyncCheck \/ AsyncSet \/ AsyncExec \/ Resume \/ FailCall \/ EnrichStep

Spec == Init /\ [][Next]_vars

\* The chained steps alone: no direct call of fail.
NextChain ==
  \/ With \/ Without \/ Check \/ Set \/ Exec
  \/ AsyncCheck \/ AsyncSet \/ AsyncExec \/ Resume

SpecChain == Init /\ [][NextChain]_vars

\* ------------------------------------------- the machine with observers
\* The names a listener can be registered under: the coarse name and the
\* enriched messages.
EventNames == {Enrich(e, "undef").message : e \in ErrNames}

ListenerIds == <<"l1", "l2", "l3", "l4">>

\* EventEmitter.on(name, listener)
On ==
  /\ Len(listeners) < MaxListeners
  /\ \E name \in EventNames, throws \in BOOLEAN :
       listeners' = Append(listeners,
                           [id |-> ListenerIds[Len(listeners) + 1], name |-> name,
                            throws |-> throws])
  /\ last' = Info("on")
  /\ UNCHANGED <<heap, path, ok, defaultError, defaultOnError, nfails, log,
                 tasks, nops, chain, errs, runs, asyncTarget>>

ObsStep == nops < MaxObsOps /\ nops' = nops + 1

\* handler.enrich(err, cause), called directly
EnrichCall ==
  /\ ObsStep
  /\ \E err \in ErrNames, cause \in {"undef", "thrown"} :
       Apply(Unchanged,
             [Info("enrich") EXCEPT !.p = err, !.q = cause, !.env = Enrich(err, cause)],
             tasks)

\* handler.fail(err, cause, onError), called directly, all arguments tried
FailWith ==
  /\ ObsStep
  /\ \E err \in ErrNames, onError \in OnErrorArgs :
       Apply(Failing(Unchanged, err, "thrown", onError),
             [Info("fail") EXCEPT !.p = err, !.q = "thrown", !.val = onError], tasks)

InitObs ==
  /\ heap = InitHeap
  /\ path = <<Root>>
  /\ ok = TRUE
  /\ \E d \in Defaults \cup {[error |-> "dBare", onError |-> "undef"]} :
       defaultError = d.error /\ defaultOnError = d.onError
  /\ listeners = <<>>
  /\ nfails = 0
  /\ log = <<>>
  /\ tasks = <<>>
  /\ last = Info("new")
  /\ nops = 0
  /\ chain = <<>>
  /\ errs = <<>>
  /\ asyncTarget = <<>>
  /\ runs = <<>>

\* check(predicate, error, onError) on the handler with observers
CheckObs ==
  /\ ObsStep
  /\ \E pred \in Predicates, f \in StepFailArgs :
       Apply(HandlerCheck(pred, f.err, f.onError), Info("check"), tasks)

NextObs == On \/ EnrichCall \/ FailWith \/ CheckObs

SpecObs == InitObs /\ [][NextObs]_vars

\* ------------------------------------------------- the README's usage
\* A chain with(p).check(predicate, { message: "wrong-name" }).set(q, v) on
\* new Handler(data, { message: "handler-fail" }); Usage is the README's.
UsageStep(op, p, pred, val) == [op |-> op, p |-> p, pred |-> pred, val |-> val]

Usage ==
  << UsageStep("with", "user", "-", "-"),
     UsageStep("check", "-", "isAlice", "-"),
     UsageStep("set", "age", "-", "30") >>

UsageChains ==
  { << UsageStep("with", p, "-", "-"),
       UsageStep("check", "-", pred, "-"),
       UsageStep("set", q, "-", v) >> :
    p \in {a.text : a \in UsagePathArgs},
    pred \in {"isAlice", "Boolean", "pFalse", "pThrow"},
    q \in {a.text : a \in UsagePathArgs},
    v \in {"30", "Bob"} }

UsageArg(text) == CHOOSE a \in UsagePathArgs : a.text = text

InitUsage ==
  /\ heap = UsageHeap
  /\ path = <<Root>>
  /\ ok = TRUE
  /\ defaultError = "dBare" /\ defaultOnError = "undef"
  /\ listeners = <<>>
  /\ nfails = 0
  /\ log = <<>>
  /\ tasks = <<>>
  /\ last = Info("new")
  /\ nops = 0
  /\ chain \in UsageChains
  /\ errs = <<>>
  /\ asyncTarget = <<>>
  /\ runs = <<>>

\* the next call of the script
NextCall(op) ==
  /\ nops < Len(chain)
  /\ chain[nops + 1].op = op
  /\ nops' = nops + 1

UsageWith ==
  /\ NextCall("with")
  /\ LET c == chain[nops + 1]
     IN Apply(HandlerWith(UsageArg(c.p), "undef", "undef", FALSE),
              [Info("with") EXCEPT !.p = c.p], tasks)

UsageCheck ==
  /\ NextCall("check")
  /\ Apply(HandlerCheck(chain[nops + 1].pred, "eMsg", "undef"), Info("check"), tasks)

UsageSet ==
  /\ NextCall("set")
  /\ LET c == chain[nops + 1]
     IN Apply(HandlerSet(UsageArg(c.p), [fn |-> FALSE, out |-> c.val],
                         "undef", "undef", FALSE),
              [Info("set") EXCEPT !.p = c.p, !.val = c.val], tasks)

NextUsage == UsageWith \/ UsageCheck \/ UsageSet

SpecUsage == InitUsage /\ [][NextUsage]_vars

\* ------------------------------------------------ HttpRequestHandler
\* new HttpRequestHandler({ req, res }): the default error is
\* { message: "handler-fail" }, the default callback defaultOnError.  The
\* response may have been sent by the application before.
RequestMethods == {"GET", "get", "DELETE", "absent"}

InitHttp ==
  /\ \E m \in RequestMethods, sent \in {"false", "true"}, c \in Requests :
       heap = Carrying(HttpHeap(m, sent), c)
  /\ path = <<Root>>
  /\ ok = TRUE
  /\ defaultError = "dBare" /\ defaultOnError = "defaultOnError"
  /\ listeners = <<>>
  /\ nfails = 0
  /\ log = <<>>
  /\ tasks = <<>>
  /\ last = Info("new")
  /\ nops = 0
  /\ chain = <<>>
  /\ errs = <<>>
  /\ asyncTarget = <<>>
  /\ runs = <<>>

HttpStep == nops < MaxHttpOps /\ nops' = nops + 1

CheckMethod ==
  /\ HttpStep
  /\ \E arg \in MethodArgs :
       Apply(HandlerCheckMethod(arg), [Info("checkMethod") EXCEPT !.val = arg], tasks)

HttpWith ==
  /\ HttpStep
  /\ \E p \in HttpPathArgs :
       Apply(HandlerWith(p, "undef", "undef", FALSE),
             [Info("with") EXCEPT !.p = p.text], tasks)

HttpWithout ==
  /\ HttpStep
  /\ Apply(HandlerWithout(1), [Info("without") EXCEPT !.n = 1], tasks)

PrepareToken ==
  /\ HttpStep
  /\ Apply(HandlerPrepareToken, Info("prepareToken"), tasks)

CheckToken ==
  /\ HttpStep
  /\ \E v \in Validators :
       Apply(HandlerCheckToken(v), [Info("checkToken") EXCEPT !.val = v], tasks)

CheckQueryParam ==
  /\ HttpStep
  /\ \E v \in Validators :
       Apply(HandlerCheckReq("query.token", v, "eQuery"), [Info("checkQueryParam") EXCEPT !.val = v], tasks)

CheckCookie ==
  /\ HttpStep
  /\ \E v \in Validators :
       Apply(HandlerCheckReq("cookies.token", v, "eCookie"), [Info("checkCookie") EXCEPT !.val = v], tasks)

CheckHeader ==
  /\ HttpStep
  /\ \E v \in Validators :
       Apply(HandlerCheckReq("headers.authorization", v, "eHeaderAuth"), [Info("checkHeader") EXCEPT !.val = v], tasks)

CheckContentType ==
  /\ HttpStep
  /\ Apply(HandlerCheckReq("headers.content-type", "isJson", "eHeaderType"), Info("checkContentType"), tasks)

CheckAccept ==
  /\ HttpStep
  /\ Apply(HandlerCheckReq("headers.accept", "isJson", "eHeaderAccept"), Info("checkAccept"), tasks)

NextHttp ==
  \/ CheckMethod \/ HttpWith \/ HttpWithout
  \/ PrepareToken \/ CheckToken \/ CheckQueryParam \/ CheckCookie \/ CheckHeader
  \/ CheckContentType \/ CheckAccept

SpecHttp == InitHttp /\ [][NextHttp]_vars

\* the request of the root context
RootReq == heap[Root]["req"]
\* the token prepareToken looks for: the one already set, else getToken's
Sought(h, req) == IF Truthy(h[req]["token"]) THEN h[req]["token"] ELSE GetToken(h, req)

\* C28: prepareToken populates req.token from the request and succeeds when
\* a token is found; when no token is found in cookie, header or query it
\* fails the chain with its 401-coded error.
C28_PrepareToken ==
  [][ ( /\ last'.op = "prepareToken" /\ ok /\ ReqOf(heap, Ctx) # "undef" )
      => LET req == ReqOf(heap, Ctx)
         IN IF Truthy(Sought(heap, req))
              THEN /\ ok' /\ nfails' = nfails
                   /\ heap'[req]["token"] = Sought(heap, req)
              ELSE /\ ~ok' /\ nfails' = nfails + 1
                   /\ last'.env.code = "401" ]_vars

\* the protocol convenience checks
ConvenienceChecks ==
  {"checkMethod", "checkToken", "checkQueryParam", "checkCookie", "checkHeader",
   "checkContentType", "checkAccept"}

\* C29: a check never mutates the context: after each protocol convenience
\* check (checkMethod, checkToken, checkQueryParam, checkCookie,
\* checkHeader, checkContentType, checkAccept) the request object is as it
\* was before the call, whether the check passed or failed.
C29_ChecksLeaveRequest ==
  [][ last'.op \in ConvenienceChecks
      => /\ heap'[Root]["req"] = RootReq
         /\ heap'[RootReq] = heap[RootReq] ]_vars

\* ------------------------------------------------------------- Domler runs
\* new Domler(container, error, onError) on the tree of the tests
InitDom ==
  /\ heap = DomHeap
  /\ path = <<Root>>
  /\ ok = TRUE
  /\ defaultError = "dDom"
  /\ defaultOnError \in DefaultOnErrors
  /\ listeners = <<>>
  /\ nfails = 0
  /\ log = <<>>
  /\ tasks = <<>>
  /\ last = Info("new")
  /\ nops = 0
  /\ chain = <<>>
  /\ errs = <<>>
  /\ asyncTarget = <<>>
  /\ runs = <<>>

\* the (error, onError) arguments tried on withQuery
DomFailArgs == { [err |-> "undef", onError |-> "undef"],
                 [err |-> "eFull", onError |-> "cbA"] }

WithQuery ==
  /\ nops < MaxDomOps /\ nops' = nops + 1
  /\ \E sel \in Selectors, f \in DomFailArgs :
       Apply(DomlerWithQuery(sel, f.err, f.onError),
             [Info("withQuery") EXCEPT !.p = sel], tasks)

SetAttr ==
  /\ nops < MaxDomOps /\ nops' = nops + 1
  /\ Len(tasks) < MaxPending
  /\ \E value \in DomValues :
       Apply(DomlerSetAttr("data-id", value, "undef", "undef").out,
             [Info("setAttr") EXCEPT !.p = "data-id", !.val = value],
             tasks \o DomlerSetAttr("data-id", value, "undef", "undef").task)

SetText ==
  /\ nops < MaxDomOps /\ nops' = nops + 1
  /\ \E value \in DomValues :
       Apply(DomlerSetText(value, "undef", "undef"),
             [Info("setText") EXCEPT !.val = value], tasks)

DomWith ==
  /\ nops < MaxDomOps /\ nops' = nops + 1
  /\ \E p \in DomPathArgs :
       Apply(HandlerWith(p, "undef", "undef", FALSE),
             [Info("with") EXCEPT !.p = p.text], tasks)

DomWithout ==
  /\ nops < MaxDomOps /\ nops' = nops + 1
  /\ Apply(HandlerWithout(1), [Info("without") EXCEPT !.n = 1], tasks)

NextDom == WithQuery \/ SetAttr \/ SetText \/ DomWith \/ DomWithout \/ Resume

SpecDom == InitDom /\ [][NextDom]_vars

\* ------------------------------------------------- error envelope classes
\* An error object is a record of its properties; "absent" is a property
\* the object does not have.

\* what reading a property gives
Read(e, k) == IF e[k] = "absent" THEN "undef" ELSE e[k]

\* new HandlerError(message, path, cause), for the class cls that runs the
\* constructor: `if (cause) this.cause = cause`
NewHandlerError(cls, message, ePath, cause) ==
  [class |-> cls, message |-> message, path |-> ePath,
   statusCode |-> "absent", isQuery |-> "absent",
   cause |-> IF Truthy(cause) THEN cause ELSE "absent"]

\* new HttpError(statusCode, message, path, cause)
NewHttpError(statusCode, message, ePath, cause) ==
  [NewHandlerError("HttpError", message, ePath, cause)
     EXCEPT !.statusCode = statusCode]

\* new DomError(message, path, isQuery, cause)
NewDomError(message, ePath, isQuery, cause) ==
  [NewHandlerError("DomError", message, ePath, cause) EXCEPT !.isQuery = isQuery]

\* new Error(message)
NewError(message) ==
  [class |-> "Error", message |-> message, path |-> "absent",
   statusCode |-> "absent", isQuery |-> "absent", cause |-> "absent"]

\* error.clone(cause) of HandlerError, HttpError and DomError
Clone(e, cause) ==
  CASE e.class = "HttpError" ->
         [thrown |-> FALSE,
          val |-> NewHttpError(e.statusCode, e.message, e.path, cause)]
    [] e.class = "DomError" ->
         [thrown |-> FALSE,
          val |-> NewDomError(e.message, e.path, e.isQuery, cause)]
    [] OTHER -> [thrown |-> TRUE, val |-> NewError("abstract method")]

\* HandlerError.build(path, error, ctx, cause): the error it returns and
\* the configured instance afterwards; a factory (fn) makes a new object of
\* the instance's shape from the cause
Build(e, fn, cause) ==
  LET err == IF fn THEN [e EXCEPT !.cause = IF Truthy(cause) THEN cause ELSE "absent"]
             ELSE e
      got == IF Truthy(cause) /\ ~Truthy(err.cause)
               THEN [err EXCEPT !.cause = cause] ELSE err
  IN [val |-> got, inst |-> IF fn THEN e ELSE got]

\* `throw error.clone?.(cause) || error || cause`: what is thrown
CloneOr(e, cause) ==
  IF e.class = "Error" THEN e ELSE Clone(e, cause).val

\* the error instances configured on a step
Instances ==
  { NewHttpError(c, m, p, c0) :
      c \in {"401", "422"}, m \in {"m1", "m2"}, p \in {"p", "undef"},
      c0 \in {"undef", "c0"} } \cup
  { NewDomError(m, p, q, c0) :
      m \in {"m1", "m2"}, p \in {"p", "undef"}, q \in {"true", "false"},
      c0 \in {"undef", "c0"} } \cup
  { NewHandlerError("HandlerError", m, p, c0) :
      m \in {"m1", "m2"}, p \in {"p", "undef"}, c0 \in {"undef", "c0"} } \cup
  { NewError(m) : m \in {"m1", "m2"} }

\* the stateful handler, unused
Idle ==
  /\ heap = InitHeap /\ path = <<Root>> /\ ok = TRUE
  /\ defaultError = "undef" /\ defaultOnError = "undef"
  /\ listeners = <<>> /\ nfails = 0 /\ log = <<>> /\ tasks = <<>>
  /\ last = Info("new") /\ nops = 0 /\ chain = <<>>

InitErr ==
  /\ Idle
  /\ \E e \in Instances :
       errs = [inst |-> e, op |-> "new", arg |-> "-", fn |-> FALSE,
               thrown |-> FALSE, val |-> e, n |-> 0]
  /\ runs = <<>>
  /\ asyncTarget = <<>>

\* error.clone(cause), called on the instance
CloneCall ==
  /\ errs.n < MaxErrOps /\ errs.inst.class # "Error"
  /\ \E c \in {"c1", "c2", "undef", "null"} :
       errs' = [errs EXCEPT !.op = "clone", !.arg = c, !.fn = FALSE,
                            !.thrown = Clone(errs.inst, c).thrown,
                            !.val = Clone(errs.inst, c).val, !.n = @ + 1]
  /\ UNCHANGED <<handlerVars, runs, asyncTarget>>

\* a step fails and raises HandlerError.build(path, error, ctx, cause)
BuildCall ==
  /\ errs.n < MaxErrOps
  /\ \E c \in {"c1", "c2", "undef", "null"}, fn \in BOOLEAN :
       errs' = [errs EXCEPT !.op = "build", !.arg = c, !.fn = fn,
                            !.thrown = FALSE,
                            !.val = Build(errs.inst, fn, c).val,
                            !.inst = Build(errs.inst, fn, c).inst, !.n = @ + 1]
  /\ UNCHANGED <<handlerVars, runs, asyncTarget>>

\* a step fails and raises `error.clone?.(cause) || error || cause`
CloneOrCall ==
  /\ errs.n < MaxErrOps
  /\ \E c \in {"c1", "c2"} :
       errs' = [errs EXCEPT !.op = "cloneOr", !.arg = c, !.fn = FALSE,
                            !.thrown = FALSE,
                            !.val = CloneOr(errs.inst, c), !.n = @ + 1]
  /\ UNCHANGED <<handlerVars, runs, asyncTarget>>

NextErr == CloneCall \/ BuildCall \/ CloneOrCall

SpecErr == InitErr /\ [][NextErr]_vars

\* ---------------------------------------------------------------- claims
ArgOf(text) == CHOOSE p \in PathArgs : p.text = text

\* the steps that start with `if (!this.ok) return this`
GuardedOps == {"check", "asyncCheck", "set", "asyncSet", "exec", "asyncExec"}
\* the chained steps
ChainOps == GuardedOps \cup {"with", "without"}

\* the notifications delivered by the latest call
Notes == SubSeq(log, last.log0 + 1, Len(log))

\* C1: once ok is false, a call of check, asyncCheck, set, asyncSet, exec or
\* asyncExec returns without invoking its predicate, producer or function,
\* without changing the context and without leaving a pending continuation.
C1_NoOpAfterFailure ==
  [][ (~ok /\ last'.op \in GuardedOps) =>
        /\ last'.invoked = 0
        /\ heap' = heap /\ path' = path
        /\ tasks' = tasks
        /\ ~last'.thrown ]_vars

C1_Witness == last.op \in GuardedOps /\ ~last.ok0

\* C2: FAILED is absorbing: no operation sets ok back to true.
C2_FailedAbsorbing == [][ ~ok => ~ok' ]_vars

C2_Witness == ~last.ok0 /\ last.op \in {"with", "set", "resume", "enrich"} /\ ~ok

\* the number of times an onError callback was invoked
OnErrorCalls == Cardinality({i \in DOMAIN log : log[i].event = <<>>})

\* C3: for any sequence of chained steps the failure pipeline runs at most
\* once: at most one envelope is produced, onError is invoked at most once.
C3_AtMostOneFailure == nfails <= 1 /\ OnErrorCalls <= 1

\* C4: the path stack always has length at least 1 with the root as first
\* element; without(n) removes min(n, length - 1) elements from the top,
\* keeps the root and does not fail, whatever n is.
C4_StackRooted ==
  /\ [](Len(path) >= 1 /\ path[1] = Root)
  /\ [][ last'.op = "without" =>
           /\ Len(path') = Len(path) - Min(last'.n, Len(path) - 1)
           /\ path' = SubSeq(path, 1, Len(path'))
           /\ ok' = ok /\ nfails' = nfails /\ ~last'.thrown ]_vars

C4_Witness ==
  /\ last.op = "without" /\ Len(last.path0) = 2
  /\ last.n > Len(last.path0) - 1
  /\ path = <<Root>>

\* C5: with(p) on a path p that resolves, in the current context, to a value
\* other than undefined and other than the context itself succeeds and
\* pushes exactly that one value, whatever the number of keys of p; a
\* without() called next restores the path stack and the current context.
C5_WithWithout ==
  [][ LET before == Top(last.path0)
          keys   == PathsKeys(ArgOf(last.p))
          target == PathsGet(heap, before, keys)
      IN (last.op = "with" /\ ~target.thrown /\ target.val \notin {"undef", before}) =>
           /\ path = Append(last.path0, target.val)
           /\ ok = last.ok0 /\ ~last.thrown
           /\ (last'.op = "without" /\ last'.n = 1) =>
                (path' = last.path0 /\ Top(path') = before) ]_vars

C5_Witness ==
  /\ last.op = "without" /\ last.n = 1 /\ nops = 2
  /\ Len(last.path0) = 2 /\ last.path0[2] = "o2"
  /\ path = <<Root>>

Callback == IF last.val = "undef" THEN defaultOnError ELSE last.val

C8_Enrich ==
  last.op = "enrich" =>
    LET local == ErrObj(last.p)
        dflt  == ErrObj(defaultError)
        Pick(k) == IF k \in DOMAIN local THEN local[k]
                   ELSE IF k \in DOMAIN dflt THEN dflt[k] ELSE "undef"
        Has(k)  == k \in DOMAIN local \/ k \in DOMAIN dflt
        lmsg  == IF "message" \in DOMAIN local THEN local.message ELSE <<>>
    IN /\ last.env.message =
            (IF lmsg = <<>> THEN CoarseName ELSE CoarseName \o <<":">> \o lmsg)
       /\ \A k \in {"code", "path"} :
            IF Has(k) THEN k \in DOMAIN last.env /\ last.env[k] = Pick(k)
            ELSE k \notin DOMAIN last.env
       /\ last.env.emitter = "this"
       /\ last.env.cause = last.q

\* C9: every observer attached when a failure occurs (the onError callback,
\* the listeners of the coarse name, the listeners of the enriched message)
\* is invoked for that failure, whatever the other observers do.
C9_AllObserversNotified ==
  last.op = "fail" =>
    /\ Callback # "undef" => \E i \in DOMAIN Notes : Notes[i].event = <<>>
    /\ \A k \in DOMAIN listeners :
         listeners[k].name \in {CoarseName, last.env.message} =>
           \E i \in DOMAIN Notes : Notes[i].obs = listeners[k].id

\* C10: on an ok handler whose current context is an object, set(path, v)
\* with a value v that is not undefined, followed by get(path), returns v,
\* for a path of one key and for a path of several keys whose intermediate
\* keys hold objects.
C10_SetThenGet ==
  [][ ( /\ last.op = "set" /\ last.ok0 /\ ~last.fn /\ last.val # "undef"
        /\ PathsKeys(ArgOf(last.p)) # <<>> /\ IsObj(last.q)
        /\ last'.op = "get" /\ last'.p = last.p )
      => (last'.ret = last.val /\ ~last'.thrown /\ ok) ]_vars

C10_Witness ==
  /\ last.op = "get" /\ last.p = "a..a" /\ last.ret = "2" /\ ~last.thrown
  /\ nops = 2

\* some key of the path is missing on the way down from cur
RECURSIVE MissingLevel(_, _, _)
MissingLevel(h, cur, keys) ==
  /\ keys # <<>>
  /\ IsObj(cur)
  /\ \/ h[cur][Head(keys)] = "absent"
     \/ MissingLevel(h, h[cur][Head(keys)], Tail(keys))

\* C11: set(path, producer) with a producer whose result is undefined fails
\* and assigns nothing, whatever creating is.
C11_UndefinedResultFails ==
  [][ (last'.op = "set" /\ ok /\ last'.fn /\ last'.val = "undef") =>
        (~ok' /\ nfails' = nfails + 1 /\ heap' = heap) ]_vars

C13_SetCreates ==
  [][ ( /\ last'.op = "set" /\ ok /\ last'.creating /\ ~last'.fn
        /\ MissingLevel(heap, Ctx, Init1(PathsKeys(ArgOf(last'.p)))) )
      => /\ ok'
         /\ PathsGet(heap', Ctx, PathsKeys(ArgOf(last'.p))).val = last'.val ]_vars

\* the value with(p) looks for does not exist below the current context
NoSuchPath(h, cur, keys) ==
  LET r == PathsGet(h, cur, keys) IN r.thrown \/ r.val = "undef"

\* C14: with(path) with creating false on a path that does not exist in the
\* current context fails, with the supplied error or else with the
\* path-not-found error carrying the path, and leaves the path stack alone.
C14_WithMissingFails ==
  [][ ( /\ last'.op = "with" /\ ~last'.creating
        /\ NoSuchPath(heap, Ctx, PathsKeys(ArgOf(last'.p))) )
      => /\ ~ok' /\ nfails' = nfails + 1 /\ path' = path
         /\ last'.env.message \in
              { Enrich("eFull", "undef").message,
                Enrich(NotFound(ArgOf(last'.p)), "undef").message } ]_vars

\* C15: with(path) with creating true on a path that does not exist creates
\* an empty object there, pushes it and leaves ok true.
C15_WithCreates ==
  [][ ( /\ last'.op = "with" /\ ok /\ last'.creating
        /\ MissingLevel(heap, Ctx, PathsKeys(ArgOf(last'.p))) )
      => /\ ok' /\ Len(path') = Len(path) + 1
         /\ IsObj(Top(path'))
         /\ PathsGet(heap', Ctx, PathsKeys(ArgOf(last'.p))).val = Top(path') ]_vars

\* C16: a function passed to exec or asyncExec that throws or rejects makes
\* the handler fail with the thrown value as the envelope's cause, and the
\* call itself (its promise) neither throws nor rejects.
C16_ExecCaught ==
  [][ ( \/ last'.op \in {"exec", "asyncExec"}
        \/ (last'.op = "resume" /\ last'.q = "asyncExec") )
      => /\ ~last'.thrown
         /\ nfails' > nfails =>
              (~ok' /\ last'.env.cause \in {"thrown", "rejected", "TypeError"}) ]_vars

\* C17: on { user: { name: "Alice" } } the chain with("user"),
\* check(ctx => ctx.name === "Alice", { message: "wrong-name" }),
\* set("age", 30) ends with ok true, the current context { name: "Alice",
\* age: 30 } and the root { user: { name: "Alice", age: 30 } }.
C17_Usage ==
  (chain = Usage /\ nops = Len(chain)) =>
    /\ ok /\ nfails = 0
    /\ path = <<Root, "o1">>
    /\ heap["o1"] = [user |-> "absent", name |-> "Alice", age |-> "30"]
    /\ heap[Root] = [user |-> "o1", name |-> "absent", age |-> "absent"]

C17_Witness ==
  /\ chain = Usage /\ nops = Len(chain)
  /\ last.op = "set" /\ last.ok0 /\ Ctx = "o1" /\ heap["o1"]["age"] = "30"

TypeOK ==
  /\ Len(path) >= 1
  /\ ok \in BOOLEAN

\* C18: on a context whose req.method is not among the expected methods (in
\* any letter case), checkMethod fails the handler with an envelope of code
\* 405 and message "handler-fail:method-check" and leaves req as it was;
\* when the method is among them the handler stays ok and nothing fails.
Among(arg, m) ==
  \/ arg = "GET,POST" /\ m \in {"GET", "get", "POST", "post"}
  \/ arg = "delete"   /\ m \in {"DELETE", "delete"}

C18_CheckMethod ==
  [][ ( /\ last'.op = "checkMethod" /\ ok
        /\ IsObj(Ctx) /\ IsObj(heap[Ctx]["req"])
        /\ heap[heap[Ctx]["req"]]["method"] # "absent" )
      => LET req == heap[Ctx]["req"]
         IN IF Among(last'.val, heap[req]["method"])
              THEN ok' /\ nfails' = nfails /\ heap' = heap /\ path' = path
              ELSE /\ ~ok' /\ nfails' = nfails + 1
                   /\ last'.env.code = "405"
                   /\ last'.env.message = <<"handler-fail", ":", "method-check">>
                   /\ heap'[req] = heap[req]
                   /\ heap'[Ctx]["req"] = req ]_vars

C18_Witness ==
  /\ last.op = "checkMethod" /\ last.ok0 /\ last.path0 = <<Root>>
  /\ last.val = "GET,POST" /\ heap["o1"]["method"] = "DELETE"
  /\ ~ok /\ nfails = 1 /\ last.env.code = "405"
  /\ heap["o2"]["statusCode"] = "405"


\* the response object of the root context
RootRes == heap[Root]["res"]
\* the status code the default failure observer gives an envelope
StatusOf(env) == IF "code" \in DOMAIN env THEN env.code ELSE "400"

\* C19: with the default failure observer, every failure of a sequence of
\* HttpRequestHandler steps is written to the response once, as a JSON
\* notification under the envelope's code (400 when it has none); the
\* response is never ended twice, and a response already finalized is left
\* as it is.
C19_WrittenOnce ==
  [][ /\ heap'[RootRes]["ends"] # "2"
      /\ (nfails' > nfails) =>
            IF heap[RootRes]["headersSent"] = "true"
              THEN heap'[RootRes] = heap[RootRes]
              ELSE /\ heap'[RootRes]["ends"] = "1"
                   /\ heap'[RootRes]["statusCode"] = StatusOf(last'.env)
                   /\ heap'[RootRes]["body"] = NotificationFromError(last'.env) ]_vars

\* C20: every failure of an HttpRequestHandler with the default failure
\* observer, at any navigation depth, is written through the response when
\* the root context's res has not been finalized.
C20_WrittenAtAnyDepth ==
  [][ (nfails' > nfails /\ heap[RootRes]["headersSent"] = "false") =>
        /\ heap'[RootRes]["headersSent"] = "true"
        /\ heap'[RootRes]["body"] = NotificationFromError(last'.env) ]_vars


\* C30: exec(fn) runs fn on the current context inside the call and returns
\* the handler itself, so that the next step can be chained on its result.
C30_ExecReturnsHandler ==
  [][ (last'.op = "exec" /\ ok) =>
        (last'.invoked = 1 /\ last'.ret = "this") ]_vars


\* C21: on the tree holding #container > .item, withQuery to .item followed
\* by setAttr("data-id", v) sets attribute data-id of the selected node to v,
\* changes no other node and nothing else of that node, and leaves the
\* handler ok with the selected node as current context.
C21_SetAttrOnSelected ==
  [][ ( /\ last.op = "withQuery" /\ last.p = "#container > .item"
        /\ last.ok0 /\ ~last.thrown /\ ok
        /\ last'.op = "setAttr" /\ last'.val # "throw" )
      => /\ Ctx = "o2"
         /\ heap'["o2"]["@data-id"] = last'.val
         /\ \A k \in DomKeys \ {"@data-id"} : heap'["o2"][k] = heap["o2"][k]
         /\ \A n \in Objs \ {"o2"} : heap'[n] = heap[n]
         /\ ok' /\ nfails' = nfails
         /\ path' = path ]_vars

C21_Witness ==
  /\ last.op = "setAttr" /\ last.val = "123" /\ last.ok0
  /\ path = <<Root, "o2">> /\ ok
  /\ heap = [DomHeap EXCEPT !["o2"]["@data-id"] = "123"]

\* C22: withQuery on an ok handler pushes exactly the node the query
\* resolves to; when the current context has no query capability or the
\* query yields no node it fails once through the failure pipeline with the
\* element-not-found error (or the caller's), pushes nothing and does not
\* throw.
C22_QueryNavigation ==
  [][ (last'.op = "withQuery" /\ ok) =>
        IF IsNode(heap, Ctx) /\ QuerySelector(heap, Ctx, last'.p) # "null"
          THEN /\ path' = Append(path, QuerySelector(heap, Ctx, last'.p))
               /\ ok' /\ nfails' = nfails /\ heap' = heap
          ELSE /\ ~ok' /\ nfails' = nfails + 1 /\ ~last'.thrown
               /\ path' = path /\ heap' = heap
               /\ last'.env.message \in
                     { <<"dom-handler-fail", ":", "Element not found", ":",
                         " " \o last'.p>>,
                       <<"dom-handler-fail", ":", "wrong-name">> } ]_vars


\* C23: for HandlerError, HttpError and DomError, clone(newCause) returns a
\* new envelope with the message, status code, path and isQuery flag of the
\* original and with cause newCause, and leaves the original as it was.
C23_CloneRoundTrip ==
  [][ errs'.op = "clone" =>
        /\ ~errs'.thrown
        /\ errs'.val.class = errs.inst.class
        /\ \A k \in {"message", "statusCode", "path", "isQuery"} :
             errs'.val[k] = errs.inst[k]
        /\ Read(errs'.val, "cause") = errs'.arg
        /\ errs'.inst = errs.inst ]_vars

\* C24: when one error instance is configured on a step that fails in
\* several invocations with different causes, the envelope each invocation
\* raises has the instance's message and the cause of that invocation, and
\* the instance is not modified.
C24_CausePerInvocation ==
  [][ ( /\ errs'.op \in {"build", "cloneOr"} /\ ~errs'.fn
        /\ errs.inst.class # "Error" /\ Truthy(errs'.arg) )
      => /\ errs'.val.message = errs.inst.message
         /\ Read(errs'.val, "cause") = errs'.arg
         /\ errs'.inst = errs.inst ]_vars



\* ------------------------------------------- the composed-function model
\* Handler.as(business) gives a function; every chained call gives a new
\* function that runs one more step.  A composed handler is the sequence
\* of its steps, each with the error instance configured on it; the
\* business function is the default ctx => ctx.  Navigation keeps its
\* stack in the root context under the key handler.metaCtx.
\* Two documents: in the first the container holds the .item span, in the
\* second it holds no .item and the root has no text.
AsRoots ==
  << DomHeap,
     [DomHeap EXCEPT !["o2"]["className"] = "", !["o0"]["textContent"] = ""] >>
Invocations == 1..2

\* ctx[metaCtx]: absent, or the stack of the contexts entered
NoMeta == [present |-> FALSE, stack |-> <<>>]

\* Handler.currentCtx(ctx, metaCtx): the top of the stack, the root without
CurrentCtx(meta) ==
  IF meta.present /\ meta.stack # <<>> THEN Top(meta.stack) ELSE Root

\* stack.push(node); ctx[metaCtx] = stack
Pushed(meta, node) == [present |-> TRUE, stack |-> Append(meta.stack, node)]

\* the kinds of step chained: with(path, false, error), without(),
\* check(path, Boolean, error), set(path, value, false, error) and
\* with(selector, true, ..., error)
AsSteps ==
  { [kind |-> "with",      arg |-> "parentNode"],
    [kind |-> "with",      arg |-> "textContent"],
    [kind |-> "without",   arg |-> "-"],
    [kind |-> "check",     arg |-> "textContent"],
    [kind |-> "set",       arg |-> "textContent"],
    [kind |-> "withQuery", arg |-> "#container > .item"] }

\* The error configured on the step chained at position k: a DomError for
\* a query, as its default is, an Error otherwise
Configured(step, k) ==
  IF step.kind = "withQuery"
    THEN NewDomError(<<"e1", "e2", "e3", "e4", "e5">>[k], step.arg, "true", "undef")
    ELSE NewError(<<"e1", "e2", "e3", "e4", "e5">>[k])

\* no error
NoError == NewError("-")
\* `HandlerError` is not bound in DomHandler.js: evaluating it throws
ReferenceError ==
  [NewError("HandlerError is not defined") EXCEPT !.class = "ReferenceError"]
\* what a step leaves: the context, and the error thrown when it fails
Done(h, meta) == [failed |-> FALSE, heap |-> h, meta |-> meta, err |-> NoError]
Thrown(h, meta, err) == [failed |-> TRUE, heap |-> h, meta |-> meta, err |-> err]

\* a property of the current context; a primitive has none of these
AsGet(h, cur, key) == IF IsObj(cur) THEN Read(h[cur], key) ELSE "undef"

\* Handler.with(path, creating = false, error): enter the value at path
AsWith(step, h, meta) ==
  LET next == AsGet(h, CurrentCtx(meta), step.arg)
  IN IF next = "undef" THEN Thrown(h, meta, step.error)
     ELSE Done(h, Pushed(meta, next))

\* Mutant of AsWithout: the emptied stack stays in the context.
M_AsWithout_KeepsEmpty(step, h, meta) ==
  IF ~meta.present \/ meta.stack = <<>> THEN Done(h, meta)
  ELSE Done(h, [present |-> TRUE,
                stack |-> SubSeq(meta.stack, 1, Len(meta.stack) - 1)])

\* Handler.without(): leave the context entered last; the metadata goes
\* with the last one
AsWithout(step, h, meta) ==
  IF ~meta.present \/ meta.stack = <<>> THEN Done(h, meta)
  ELSE IF Len(meta.stack) = 1 THEN Done(h, NoMeta)
  ELSE Done(h, [present |-> TRUE,
                stack |-> SubSeq(meta.stack, 1, Len(meta.stack) - 1)])

\* Handler.check(path, validator = Boolean, error)
AsCheck(step, h, meta) ==
  IF Truthy(AsGet(h, CurrentCtx(meta), step.arg)) THEN Done(h, meta)
  ELSE Thrown(h, meta, step.error)

\* Handler.set(path, "Hello", false, error)
AsSet(step, h, meta) ==
  IF ~IsObj(CurrentCtx(meta)) THEN Thrown(h, meta, step.error)
  ELSE Done([h EXCEPT ![CurrentCtx(meta)][step.arg] = "Hello"], meta)

\* DomHandler.with(selector, true, error) of src/main/handler/DomHandler.js:
\* both failures evaluate HandlerError.build(...)
DomHandlerWith(step, h, meta) ==
  LET current == CurrentCtx(meta)
  IN IF ~IsNode(h, current) THEN Thrown(h, meta, ReferenceError)
     ELSE IF QuerySelector(h, current, step.arg) = "null"
       THEN Thrown(h, meta, ReferenceError)
     ELSE Done(h, Pushed(meta, QuerySelector(h, current, step.arg)))

\* DomHandler.with(selector, true, creating, error) of the other revision:
\* throw error.clone?.(cause) || error || cause
DomHandlerWith4(step, h, meta) ==
  LET current == CurrentCtx(meta)
  IN IF ~IsNode(h, current) THEN Thrown(h, meta, CloneOr(step.error, "not a DOM node"))
     ELSE IF QuerySelector(h, current, step.arg) = "null"
       THEN Thrown(h, meta, CloneOr(step.error, "querySelector failed"))
     ELSE Done(h, Pushed(meta, QuerySelector(h, current, step.arg)))

\* one step of the composed function, on the context of the invocation
AsRun(rev, step, h, meta) ==
  CASE step.kind = "with"    -> AsWith(step, h, meta)
    [] step.kind = "without" -> AsWithout(step, h, meta)
    [] step.kind = "check"   -> AsCheck(step, h, meta)
    [] step.kind = "set"     -> AsSet(step, h, meta)
    [] OTHER -> IF rev = "DomHandler.js" THEN DomHandlerWith(step, h, meta)
                ELSE DomHandlerWith4(step, h, meta)

\* an invocation not made yet
NotInvoked ==
  [status |-> "idle", heap |-> DomHeap, meta |-> NoMeta, ran |-> <<>>,
   failedAt |-> 0, err |-> NoError, result |-> "-"]

InitAs ==
  /\ Idle
  /\ errs = <<>>
  /\ asyncTarget = <<>>
  /\ \E rev \in {"DomHandler.js", "part_004"} :
       runs = [rev |-> rev, def |-> <<>>, inv |-> [i \in Invocations |-> NotInvoked]]

\* a chained call: the handler gets one more step.  The path form of
\* DomHandler.with in DomHandler.js is super.with(selector, true), which
\* creates the path; with(path, false, error) is the other revision's.
Chain ==
  /\ Len(runs.def) < MaxSteps
  /\ \A i \in Invocations : runs.inv[i].status = "idle"
  /\ \E step \in AsSteps :
       /\ step.kind = "with" => runs.rev = "part_004"
       /\ runs' = [runs EXCEPT !.def =
                     Append(@, [kind |-> step.kind, arg |-> step.arg,
                                error |-> Configured(step, Len(runs.def) + 1)])]
  /\ UNCHANGED <<handlerVars, errs, asyncTarget>>

\* handler(ctx): invocation i is made on its own root context
Invoke ==
  /\ runs.def # <<>>
  /\ \E i \in Invocations :
       /\ runs.inv[i].status = "idle"
       /\ runs' = [runs EXCEPT !.inv[i].status = "running",
                               !.inv[i].heap = AsRoots[i]]
  /\ UNCHANGED <<handlerVars, errs, asyncTarget>>

\* what running step k leaves of an invocation
Stepped(inv, k, out, isLast) ==
  [inv EXCEPT !.heap = out.heap, !.meta = out.meta,
              !.ran = Append(@, k),
              !.failedAt = IF out.failed THEN k ELSE 0,
              !.err = out.err,
              !.status = IF out.failed THEN "rejected"
                         ELSE IF isLast THEN "resolved" ELSE "running",
              !.result = IF ~out.failed /\ isLast THEN Root ELSE "-"]

\* Mutant of RunStep: the navigation stack is kept on the handler, every
\* invocation under way sees the stack the step leaves.
M_RunStep_SharedStack ==
  /\ \E i \in Invocations :
       /\ runs.inv[i].status = "running"
       /\ LET k   == Len(runs.inv[i].ran) + 1
              out == AsRun(runs.rev, runs.def[k], runs.inv[i].heap, runs.inv[i].meta)
          IN runs' = [runs EXCEPT !.inv =
                        [j \in Invocations |->
                           IF j = i THEN Stepped(runs.inv[i], k, out, k = Len(runs.def))
                           ELSE IF runs.inv[j].status = "running"
                             THEN [runs.inv[j] EXCEPT !.meta = out.meta]
                           ELSE runs.inv[j]]]
  /\ UNCHANGED <<handlerVars, errs, asyncTarget>>

\* the next step of invocation i runs: a failure rejects the invocation,
\* the last step resolves it with the root context
RunStep ==
  /\ \E i \in Invocations :
       /\ runs.inv[i].status = "running"
       /\ LET k == Len(runs.inv[i].ran) + 1
          IN runs' = [runs EXCEPT !.inv[i] =
                        Stepped(@, k,
                                AsRun(runs.rev, runs.def[k], @.heap, @.meta),
                                k = Len(runs.def))]
  /\ UNCHANGED <<handlerVars, errs, asyncTarget>>

NextAs == Chain \/ Invoke \/ RunStep

SpecAs == InitAs /\ [][NextAs]_vars

\* the steps 1..n
Upto(n) == [k \in 1..n |-> k]

\* C25: invoking the composed handler runs its steps in order; the first
\* step that fails aborts the remaining steps and the invocation rejects
\* with the error supplied to that step; when no step fails the invocation
\* resolves to the root context.
C25_StepsInOrder ==
  \A i \in Invocations :
    LET inv == runs.inv[i]
    IN /\ inv.ran = Upto(Len(inv.ran))
       /\ inv.status = "rejected" =>
            /\ inv.failedAt = Len(inv.ran)
            /\ inv.err.class = runs.def[inv.failedAt].error.class
            /\ inv.err.message = runs.def[inv.failedAt].error.message
       /\ inv.status = "resolved" =>
            /\ inv.ran = Upto(Len(runs.def))
            /\ inv.failedAt = 0
            /\ inv.result = Root
       /\ inv.status = "running" => inv.failedAt = 0

\* the steps that enter a context, and the one that leaves it
Enters(step) == step.kind \in {"with", "withQuery"}
\* how deep the steps of def leave the navigation
RECURSIVE Depth(_)
Depth(def) ==
  IF def = <<>> THEN 0
  ELSE LET d == Depth(SubSeq(def, 1, Len(def) - 1))
           s == def[Len(def)]
       IN IF Enters(s) THEN d + 1
          ELSE IF s.kind = "without" /\ d > 0 THEN d - 1
          ELSE d
\* every with is balanced by a without
Balanced(def) == Depth(def) = 0

\* C26: after invoking a handler in which every with is balanced by a
\* without, the context returned carries no navigation-stack metadata, for
\* property-path navigation and for structural-query navigation alike.
C26_NoResidualMetadata ==
  \A i \in Invocations :
    (runs.inv[i].status = "resolved" /\ Balanced(runs.def))
      => ~runs.inv[i].meta.present

C26_Witness ==
  /\ Len(runs.def) = 3
  /\ runs.def[1].kind = "withQuery" /\ runs.def[2].kind = "set"
  /\ runs.def[3].kind = "without"
  /\ runs.inv[1].status = "resolved"
  /\ runs.inv[1].heap["o2"]["textContent"] = "Hello"
  /\ ~runs.inv[1].meta.present

\* an invocation of def alone on the root h, after n steps
RECURSIVE Alone(_, _, _, _)
Alone(rev, def, h, n) ==
  IF n = 0 THEN [NotInvoked EXCEPT !.status = "running", !.heap = h]
  ELSE LET before == Alone(rev, def, h, n - 1)
       IN IF before.status # "running" THEN before
          ELSE Stepped(before, n,
                       AsRun(rev, def[n], before.heap, before.meta),
                       n = Len(def))

\* C27: invocations of one composed handler on different root contexts,
\* sequential or interleaved, are independent: each is, at every moment,
\* where it would be had it run alone, and no step changes the handler.
C27_Independent ==
  /\ \A i \in Invocations :
       runs.inv[i].status # "idle" =>
         runs.inv[i] = Alone(runs.rev, runs.def, AsRoots[i], Len(runs.inv[i].ran))
  /\ \A k \in DOMAIN runs.def :
       runs.def[k].error = Configured(runs.def[k], k)

C27_Witness ==
  /\ runs.inv[1].status = "resolved" /\ runs.inv[2].status = "rejected"
  /\ runs.inv[1].meta.present /\ ~runs.inv[2].meta.present
  /\ Len(runs.inv[2].ran) < Len(runs.inv[1].ran)


\* C31: with(path) whose path resolves to the very reference on top of the
\* stack (the empty path) is a failure: ok is false afterwards, the failure
\* pipeline has run once more and the path stack is as it was.
C31_WithSameReference ==
  [][ (/\ last'.op = "with"
       /\ PathsGet(heap, Ctx, PathsKeys(ArgOf(last'.p))) =
            [thrown |-> FALSE, val |-> Ctx]) =>
        (~ok' /\ path' = path /\ nfails' = nfails + 1) ]_vars

C31_Witness ==
  /\ last.op = "with" /\ last.p = "" /\ last.ok0
  /\ ~ok /\ path = last.path0 /\ Len(path) > 1 /\ nfails = 1


\* C32: a producer passed to set or asyncSet on an ok handler is invoked
\* exactly once, with the current context as its first argument, for every
\* path length and for both values of creating.
C32_ProducerGetsContext ==
  [][ (last'.op \in {"set", "asyncSet"} /\ last'.invoked = 1) =>
        last'.arg = Ctx ]_vars


\* C33: a check fails the handler whenever its validator's result is false:
\* check and asyncCheck alike, whether the validator returns false at once
\* or a pending result that resolves to false.
C33_UniformCheck ==
  [][ /\ (last'.op = "check" /\ last'.val \in {"false", "promise"}) => ~ok'
      /\ (/\ last'.op = "resume" /\ last'.q = "asyncCheck"
          /\ Len(tasks) = 1 /\ tasks[1].settle = "false") => ~ok' ]_vars


\* C34: once ok is false, with() and without() are no-ops too: they leave
\* the path stack, and so the current context, as it was.
C34_NavigationNoOp ==
  [][ (~ok /\ last'.op \in {"with", "without"}) => path' = path ]_vars


\* C35: a set or asyncSet that fails (the producer throws, a level of the
\* path is missing, the path is empty, the target is not an object) leaves
\* the context exactly as it was: nothing created, nothing assigned.
C35_NoPartialFailure ==
  [][ (/\ \/ last'.op \in {"set", "asyncSet"}
          \/ last'.op = "resume" /\ last'.q = "asyncSet"
       /\ nfails' > nfails) => heap' = heap ]_vars

C35_Witness ==
  /\ last.op = "set" /\ last.ok0 /\ ~ok /\ ~last.fn /\ ~last.creating
  /\ Len(PathsKeys(ArgOf(last.p))) > 1
  /\ MissingLevel(heap, Top(last.path0), Init1(PathsKeys(ArgOf(last.p))))
  /\ heap = InitHeap


\* C38: when the handler has failed while an asyncSet, asyncCheck or
\* asyncExec started earlier was pending, the pending step, on resuming,
\* assigns nothing and does not run the failure pipeline again.
C38_PendingAfterFailure ==
  [][ (last'.op = "resume" /\ ~ok) => (heap' = heap /\ nfails' = nfails) ]_vars


\* C39: the value of an asyncSet is assigned relative to the context that
\* was current when asyncSet was called, whatever with() or without() did
\* to the current context while the value was pending, with creating true
\* and with creating false.
C39_AssignsAtCallContext ==
  [][ (/\ last'.op = "resume" /\ last'.q = "asyncSet"
       /\ Len(tasks) = 1 /\ tasks[1].settle # "reject") =>
        LET tk == tasks[1]
        IN heap' = IF tk.creating /\ Len(tk.keys) > 1
                     THEN IF IsObj(tk.trg)
                            THEN [heap EXCEPT ![tk.trg][tk.keys[Len(tk.keys)]] = tk.settle]
                            ELSE heap
                     ELSE PathsSet(heap, tk.trg, tk.keys, tk.settle).heap ]_vars


\* C37: for each failure every listener registered on the coarse event
\* name (the default error's message) is invoked exactly once, also when
\* the local error has no message, so that the enriched message is the
\* coarse name.
C37_CoarseOnce ==
  last.op = "fail" =>
    \A k \in DOMAIN listeners :
      listeners[k].name = CoarseName =>
        Cardinality({i \in DOMAIN Notes : Notes[i].obs = listeners[k].id}) = 1


\* ------------------------------------------------------ util/Async.js
\* Async.on(target, event, fn, opts, name, registry) and Async.off(target,
\* event, nameOrFn, opts, registry) on one target, a Node.js EventEmitter or
\* a DOM element.  asyncTarget holds the target's kind, the listeners
\* attached to it in the order they were added, the registries used and the
\* latest call.  An attached listener is remembered with the name and the
\* registry it was registered under (name "undef": none), which the target
\* itself does not know.
MaxAsyncOps == 3

AsyncEvents == {"e1", "e2"}
AsyncFns == {"f1", "f2"}
\* opts: undefined or { capture: true }
OptsArgs == {"undef", "capture"}
\* name: undefined or "n"
NameArgs == {"undef", "n"}
\* registry: undefined, the string "key" or an object
RegistryArgs == {"undef", "key", "obj"}
\* the registries there are: the target itself, target.key, the object
Registries == {"target", "target.key", "obj"}

\* Async.on: `if (!registry) registry = target`, a string is target[string]
\* (created empty when missing)
OnRegistry(registry) ==
  IF registry = "undef" THEN "target"
  ELSE IF registry = "key" THEN "target.key" ELSE registry

\* Async.off: a string is target[string]; without a registry there is
\* nothing to remove
OffRegistry(registry) ==
  IF registry = "key" THEN "target.key"
  ELSE IF registry = "undef" THEN "none" ELSE registry

\* the listener l is the one removeEventListener(event, fn, opts) or
\* removeListener(event, fn) looks for: an element also compares capture
SameListener(l, kind, event, fn, opts) ==
  /\ l.event = event /\ l.fn = fn
  /\ kind = "element" => l.capture = (opts = "capture")

\* addEventListener(event, fn, opts) on an element, which ignores a
\* listener it already has; addListener(event, fn) on an emitter
Attach(ls, kind, event, fn, opts, name, reg) ==
  LET same == {i \in DOMAIN ls : SameListener(ls[i], kind, event, fn, opts)}
  IN IF kind = "element" /\ same # {}
       THEN [i \in DOMAIN ls |->
               IF i \in same THEN [ls[i] EXCEPT !.name = name, !.reg = reg] ELSE ls[i]]
       ELSE Append(ls, [event |-> event, fn |-> fn, capture |-> (opts = "capture"),
                        name |-> name, reg |-> reg])

\* removeEventListener / removeListener: one matching listener goes, none
\* when there is no match.  Equal listeners are interchangeable: the one
\* remembered under (name, reg) goes first, then the latest added.
Detach(ls, kind, event, fn, opts, name, reg) ==
  LET same == {i \in DOMAIN ls : SameListener(ls[i], kind, event, fn, opts)}
      mine == {i \in same : ls[i].name = name /\ ls[i].reg = reg}
      from == IF mine # {} THEN mine ELSE same
  IN IF same = {} THEN ls
     ELSE Remove(ls, CHOOSE i \in from : \A j \in from : j <= i)

\* Async.off(target, event, nameOrFn, opts, registry), `where` being the
\* registry once resolved
AsyncOff(t, event, nameOrFn, opts, where) ==
  IF nameOrFn \in NameArgs
    THEN IF where = "none" THEN t
         ELSE LET fn == t.registry[where]
                  t1 == [t EXCEPT !.registry[where] = "absent"]
              IN IF fn = "absent" THEN t1
                 ELSE [t1 EXCEPT !.attached =
                         Detach(@, t.kind, event, fn, opts, nameOrFn, where)]
    ELSE [t EXCEPT !.attached = Detach(@, t.kind, event, nameOrFn, opts, "undef", "-")]

\* Async.on(target, event, fn, opts, name, registry)
AsyncOn(t, event, fn, opts, name, registry) ==
  LET reg == OnRegistry(registry)
      t1  == IF name # "undef" /\ t.registry[reg] # "absent"
               THEN AsyncOff(t, event, name, opts, reg)
               ELSE t
      t2  == [t1 EXCEPT !.attached =
                Attach(@, t.kind, event, fn, opts, name,
                       IF name = "undef" THEN "-" ELSE reg)]
  IN IF name # "undef" THEN [t2 EXCEPT !.registry[reg] = fn] ELSE t2

InitAsync ==
  /\ Idle
  /\ errs = <<>>
  /\ runs = <<>>
  /\ \E kind \in {"emitter", "element"} :
       asyncTarget = [kind |-> kind, attached |-> <<>>,
                      registry |-> [r \in Registries |-> "absent"],
                      n |-> 0, op |-> "new", event |-> "-", name |-> "-",
                      reg |-> "-", opts |-> "-"]

\* what a call leaves of the target, and what the call was
Called(t, op, event, name, registry, opts) ==
  [t EXCEPT !.n = @ + 1, !.op = op, !.event = event, !.name = name,
            !.reg = registry, !.opts = opts]

OnCall ==
  /\ asyncTarget.n < MaxAsyncOps
  /\ \E event \in AsyncEvents, fn \in AsyncFns, opts \in OptsArgs,
        name \in NameArgs, registry \in RegistryArgs :
       asyncTarget' = Called(AsyncOn(asyncTarget, event, fn, opts, name, registry),
                             "on", event, name, registry, opts)
  /\ UNCHANGED <<handlerVars, errs, runs>>

OffCall ==
  /\ asyncTarget.n < MaxAsyncOps
  /\ \E event \in AsyncEvents, nameOrFn \in {"n"} \cup AsyncFns, opts \in OptsArgs,
        registry \in RegistryArgs :
       asyncTarget' = Called(AsyncOff(asyncTarget, event, nameOrFn, opts,
                                      OffRegistry(registry)),
                             "off", event, nameOrFn, registry, opts)
  /\ UNCHANGED <<handlerVars, errs, runs>>

NextAsync == OnCall \/ OffCall

SpecAsync == InitAsync /\ [][NextAsync]_vars

\* the listeners attached that were registered under the name in registry r
Named(r) ==
  {i \in DOMAIN asyncTarget.attached :
     asyncTarget.attached[i].name = "n" /\ asyncTarget.attached[i].reg = r}

\* C36: Async.on with a name is idempotent: after any calls of Async.on with
\* the same name and registry on one target at most one listener registered
\* under that name is attached, and after Async.off by that name none is.
C36_NamedOnIdempotent ==
  /\ \A r \in Registries : Cardinality(Named(r)) <= 1
  /\ (asyncTarget.op = "off" /\ asyncTarget.name = "n") =>
       Named(OnRegistry(asyncTarget.reg)) = {}

====
